---------------------------- MODULE Spec2Model ----------------------------
(***************************************************************************)
(* The trip aggregation task of bluebikes_analysis                         *)
(* (tasks/aggregate_trips): load the raw trip CSVs, load the station       *)
(* metadata, clean the trips, write the daily and the hourly aggregates.   *)
(*                                                                         *)
(* Values.  A CSV cell that may be empty is a sequence: <<>> is the empty  *)
(* cell (pandas NaN / NaT), a station id is the sequence of its            *)
(* characters, a raw timestamp cell is <<y, mo, d, h, mi, s>>, a parsed    *)
(* timestamp is <<seconds since 2023-01-01 00:00:00>>, a duration is       *)
(* <<seconds>> (min_duration * 60).  Categorical cells are strings, ""     *)
(* being the empty cell.  A date is the number of days since 2023-01-01.   *)
(* A table is [columns |-> set of column names, rows |-> sequence of rows],*)
(* a row being a function from the table's columns to cells.              *)
(***************************************************************************)
EXTENDS Integers, Sequences, FiniteSets, TLC

(***************************************************************************)
(* Bounds of the model.                                                    *)
(***************************************************************************)
\* the most rows all raw trip CSV files of the directory hold together
MaxTrips == 2

\* the most months a download range holds
MaxMonths == 2

(***************************************************************************)
(* Calendar arithmetic (datetime / pandas timestamps).                     *)
(***************************************************************************)
SecondsPerMinute == 60
SecondsPerHour == 60 * SecondsPerMinute
SecondsPerDay == 24 * SecondsPerHour

NaT == <<>>
NaN == <<>>

IsLeap(y) == (y % 4 = 0 /\ y % 100 # 0) \/ y % 400 = 0

DaysInMonth(y, m) ==
    IF m = 2 THEN (IF IsLeap(y) THEN 29 ELSE 28)
    ELSE IF m \in {4, 6, 9, 11} THEN 30 ELSE 31

RECURSIVE DaysBeforeMonth(_, _)
DaysBeforeMonth(y, m) ==
    IF m <= 1 THEN 0 ELSE DaysBeforeMonth(y, m - 1) + DaysInMonth(y, m - 1)

\* days from 0001-01-01 to the first day of year y (date.toordinal - 1)
DaysBeforeYear(y) ==
    365 * (y - 1) + ((y - 1) \div 4) - ((y - 1) \div 100) + ((y - 1) \div 400)

\* the date y-m-d as days since 2023-01-01
DateOrdinal(y, m, d) ==
    DaysBeforeYear(y) - DaysBeforeYear(2023) + DaysBeforeMonth(y, m) + (d - 1)

ValidDate(y, m, d) ==
    /\ y \in 1..9999
    /\ m \in 1..12
    /\ d \in 1..DaysInMonth(y, m)

\* pd.to_datetime(cell, errors="coerce"): the timestamp, or NaT for an empty
\* cell and for a cell that does not parse
ToDatetime(cell) ==
    IF /\ Len(cell) = 6
       /\ ValidDate(cell[1], cell[2], cell[3])
       /\ cell[4] \in 0..23
       /\ cell[5] \in 0..59
       /\ cell[6] \in 0..59
    THEN << DateOrdinal(cell[1], cell[2], cell[3]) * SecondsPerDay
            + cell[4] * SecondsPerHour + cell[5] * SecondsPerMinute + cell[6] >>
    ELSE NaT

\* Series.dt.date and Series.dt.hour of a timestamp that is not NaT
DtDate(ts) == ts[1] \div SecondsPerDay
DtHour(ts) == (ts[1] % SecondsPerDay) \div SecondsPerHour

\* datetime.strptime(s, "%Y-%m-%d") succeeds; a config date is <<y, m, d>>
StrptimeOk(s) == Len(s) = 3 /\ ValidDate(s[1], s[2], s[3])
\* its value: midnight of that date, in seconds
Strptime(s) == DateOrdinal(s[1], s[2], s[3]) * SecondsPerDay

(***************************************************************************)
(* Strings as character sequences (station ids).                           *)
(***************************************************************************)
\* ord() of the characters station ids are written with
Ord(c) ==
    CASE c = "1" -> 49 [] c = "9" -> 57 [] c = "A" -> 65 [] c = "B" -> 66
      [] c = "X" -> 88 [] c = "Z" -> 90

\* str.startswith("X")
StartsWithX(id) == Len(id) >= 1 /\ id[1] = "X"

\* Python's str <: lexicographic by code point
RECURSIVE StrLess(_, _)
StrLess(a, b) ==
    IF Len(b) = 0 THEN FALSE
    ELSE IF Len(a) = 0 THEN TRUE
    ELSE IF a[1] # b[1] THEN Ord(a[1]) < Ord(b[1])
    ELSE StrLess(Tail(a), Tail(b))

(***************************************************************************)
(* Tables.                                                                 *)
(***************************************************************************)
BoundedSeq(S, n) == UNION {[1..k -> S] : k \in 0..n}

SeqsOfLen(S, k) == [1..k -> S]

\* the empty cell of a column
NullOf(c) == IF c \in {"member_casual", "rideable_type", "usertype"} THEN "" ELSE <<>>

\* a table with the given columns and rows
Frame(cols, rows) == [columns |-> cols, rows |-> rows]

(***************************************************************************)
(* Trip loader: _load_all_trip_csvs, _standardize_trip_data,               *)
(* _parse_datetimes, _concatenate_trips.                                   *)
(***************************************************************************)
\* (mutant) every entry of the directory is taken for a CSV file
CsvFilesAll(listing) == listing

\* os.listdir entries that end with ".csv", in listing order
CsvFiles(listing) == SelectSeq(listing, LAMBDA f : f.ext = ".csv")

\* old column name -> new column name
column_mapping ==
    ("starttime" :> "started_at") @@ ("stoptime" :> "ended_at")
    @@ ("start station id" :> "start_station_id")
    @@ ("end station id" :> "end_station_id")
    @@ ("start station latitude" :> "start_lat")
    @@ ("start station longitude" :> "start_lng")
    @@ ("end station latitude" :> "end_lat")
    @@ ("end station longitude" :> "end_lng")
    @@ ("usertype" :> "member_casual")

keep_columns ==
    {"started_at", "ended_at", "start_station_id", "end_station_id", "start_lat",
     "start_lng", "end_lat", "end_lng", "member_casual", "rideable_type"}

RenameColumn(c) == IF c \in DOMAIN column_mapping THEN column_mapping[c] ELSE c

\* one file's table renamed to the standard columns, the other columns dropped
StandardizeFrame(df) ==
    LET cols == {RenameColumn(c) : c \in df.columns} \cap keep_columns
        Old(c) == CHOOSE k \in df.columns : RenameColumn(k) = c
    IN  Frame(cols, [i \in DOMAIN df.rows |-> [c \in cols |-> df.rows[i][Old(c)]]])

\* one file's table with started_at and ended_at parsed, failures coerced to NaT
ParseFrame(df) ==
    Frame(df.columns,
          [i \in DOMAIN df.rows |->
              [df.rows[i] EXCEPT !["started_at"] = ToDatetime(@),
                                 !["ended_at"] = ToDatetime(@)]])

\* pd.concat(frames, ignore_index=True): the union of the columns, the rows of
\* the frames in order, a column a frame lacks filled with the empty cell
RECURSIVE ConcatRows(_, _)
ConcatRows(frames, cols) ==
    IF frames = <<>> THEN <<>>
    ELSE LET df == Head(frames)
         IN  [i \in DOMAIN df.rows |->
                 [c \in cols |-> IF c \in df.columns THEN df.rows[i][c] ELSE NullOf(c)]]
             \o ConcatRows(Tail(frames), cols)

\* (mutant) the table of the last file stands for all of them
ConcatenateTripsLastOnly(frames) == frames[Len(frames)]

ConcatenateTrips(frames) ==
    LET cols == UNION {frames[i].columns : i \in DOMAIN frames}
    IN  Frame(cols, ConcatRows(frames, cols))

\* (mutant) only the first csv file of the listing is loaded
LoadAndPrepareTripsFirstOnly(csv_files) ==
    ParseFrame(StandardizeFrame(csv_files[1].frame))

\* _load_and_prepare_trips on the csv files of a listing
LoadAndPrepareTrips(csv_files) ==
    ConcatenateTrips([i \in DOMAIN csv_files |->
                        ParseFrame(StandardizeFrame(csv_files[i].frame))])

(***************************************************************************)
(* Station metadata loader.                                                *)
(***************************************************************************)
\* the known ids: the non-empty station_id and short_name cells
MetadataStationIds(stations_df) ==
    ({stations_df[i].station_id : i \in DOMAIN stations_df}
     \cup {stations_df[i].short_name : i \in DOMAIN stations_df})
    \ {<<>>}

(***************************************************************************)
(* Trip cleaner.                                                           *)
(***************************************************************************)
\* the ids of the trips that metadata does not know (empty cells dropped)
AllUnknownIds(rows, metadata_station_ids) ==
    ({rows[i].start_station_id : i \in DOMAIN rows}
     \cup {rows[i].end_station_id : i \in DOMAIN rows})
    \ (metadata_station_ids \cup {<<>>})

\* (mutant) every unknown id is taken for a maintenance station
XStationIdsAllUnknown(rows, metadata_station_ids) ==
    AllUnknownIds(rows, metadata_station_ids)

\* the unknown ids that start with "X"
XStationIds(rows, metadata_station_ids) ==
    {x \in AllUnknownIds(rows, metadata_station_ids) : StartsWithX(x)}

\* (mutant) only the start station is tested
KeepNonMaintenanceStartOnly(r, X_station_ids) ==
    ~(r.start_station_id \in X_station_ids)

\* (mutant) only the end station is tested
KeepNonMaintenanceEndOnly(r, X_station_ids) ==
    ~(r.end_station_id \in X_station_ids)

\* the row is not a maintenance trip
KeepNonMaintenance(r, X_station_ids) ==
    ~(r.start_station_id \in X_station_ids \/ r.end_station_id \in X_station_ids)

\* the table _filter_maintenance_trips returns (a new table)
FilterMaintenanceTrips(all_trips, metadata_station_ids) ==
    LET X_station_ids == XStationIds(all_trips.rows, metadata_station_ids)
    IN  Frame(all_trips.columns,
              SelectSeq(all_trips.rows, LAMBDA r : KeepNonMaintenance(r, X_station_ids)))

\* ended_at - started_at in seconds; NaN when either is NaT
TripDuration(r) ==
    IF r.started_at = NaT \/ r.ended_at = NaT THEN NaN
    ELSE << r.ended_at[1] - r.started_at[1] >>

\* the table with the min_duration column added
CalculateTripDuration(all_trips) ==
    Frame(all_trips.columns \cup {"min_duration"},
          [i \in DOMAIN all_trips.rows |->
              [c \in all_trips.columns \cup {"min_duration"} |->
                  IF c = "min_duration" THEN TripDuration(all_trips.rows[i])
                  ELSE all_trips.rows[i][c]]])

\* the duration thresholds of _filter_outlier_trips, in minutes
MinDurationMinutes == 1
MaxDurationMinutes == 120
FalseStartMinutes == 3

\* (mutant) the upper limit is not tested
DurationInRangeNoUpper(r) ==
    /\ r.min_duration # NaN
    /\ r.min_duration[1] >= MinDurationMinutes * SecondsPerMinute

\* (mutant) the range is tested by negation, which is True of NaN
DurationInRangeNegated(r) ==
    /\ ~(r.min_duration # NaN
         /\ r.min_duration[1] < MinDurationMinutes * SecondsPerMinute)
    /\ ~(r.min_duration # NaN
         /\ r.min_duration[1] > MaxDurationMinutes * SecondsPerMinute)

\* min_duration >= 1 and min_duration <= 120; a comparison with NaN is False
DurationInRange(r) ==
    /\ r.min_duration # NaN
    /\ r.min_duration[1] >= MinDurationMinutes * SecondsPerMinute
    /\ r.min_duration[1] <= MaxDurationMinutes * SecondsPerMinute

\* start_station_id == end_station_id; NaN == NaN is False
SameStation(r) ==
    r.start_station_id # <<>> /\ r.start_station_id = r.end_station_id

\* min_duration < 3; a comparison with NaN is False
ShortDuration(r) ==
    r.min_duration # NaN /\ r.min_duration[1] < FalseStartMinutes * SecondsPerMinute

FalseStart(r) == SameStation(r) /\ ShortDuration(r)

\* (mutant) the two tests of a false start are joined by "or"
FilterOutlierTripsSameOrShort(all_trips) ==
    LET in_range == SelectSeq(all_trips.rows, DurationInRange)
    IN  Frame(all_trips.columns,
              SelectSeq(in_range, LAMBDA r : ~(SameStation(r) \/ ShortDuration(r))))

\* (mutant) the false-start filter is left out
FilterOutlierTripsRangeOnly(all_trips) ==
    Frame(all_trips.columns, SelectSeq(all_trips.rows, DurationInRange))

\* the table _filter_outlier_trips returns: the range filter, then the
\* false-start filter on what is left
FilterOutlierTrips(all_trips) ==
    LET in_range == SelectSeq(all_trips.rows, DurationInRange)
    IN  Frame(all_trips.columns, SelectSeq(in_range, LAMBDA r : ~FalseStart(r)))

(***************************************************************************)
(* Daily aggregator.                                                       *)
(***************************************************************************)
Min(S) == CHOOSE x \in S : \A y \in S : x <= y
Max(S) == CHOOSE x \in S : \A y \in S : x >= y

\* the started_at dates of the rows (a NaT group key is dropped by groupby)
TripDates(rows) ==
    {DtDate(rows[i].started_at) : i \in {j \in DOMAIN rows : rows[j].started_at # NaT}}

\* (mutant) the distinct start stations of a date are counted, not its rows
RECURSIVE DailyGroupByNunique(_, _)
DailyGroupByNunique(rows, dates) ==
    IF dates = {} THEN <<>>
    ELSE LET d == Min(dates)
         IN  << [date |-> d,
                 trip_count |-> Cardinality({rows[i].start_station_id :
                                    i \in {j \in DOMAIN rows :
                                             /\ rows[j].started_at # NaT
                                             /\ DtDate(rows[j].started_at) = d}})] >>
             \o DailyGroupByNunique(rows, dates \ {d})

\* groupby("date").size().sort_index().reset_index(name="trip_count")
RECURSIVE DailyGroupBy(_, _)
DailyGroupBy(rows, dates) ==
    IF dates = {} THEN <<>>
    ELSE LET d == Min(dates)
         IN  << [date |-> d,
                 trip_count |-> Cardinality({i \in DOMAIN rows :
                                    /\ rows[i].started_at # NaT
                                    /\ DtDate(rows[i].started_at) = d})] >>
             \o DailyGroupBy(rows, dates \ {d})

\* (mutant) an inner merge: a date of the range with no group gets no row
RECURSIVE LeftMergeDatesInner(_, _, _)
LeftMergeDatesInner(from, to, groups) ==
    IF from > to THEN <<>>
    ELSE SelectSeq(groups, LAMBDA g : g.date = from)
         \o LeftMergeDatesInner(from + 1, to, groups)

\* complete_dates.merge(groups, on="date", how="left") with trip_count
\* filled with 0: per date of the range, its groups, or one row of 0
RECURSIVE LeftMergeDates(_, _, _)
LeftMergeDates(from, to, groups) ==
    IF from > to THEN <<>>
    ELSE LET matches == SelectSeq(groups, LAMBDA g : g.date = from)
         IN  (IF matches = <<>> THEN << [date |-> from, trip_count |-> 0] >>
              ELSE matches)
             \o LeftMergeDates(from + 1, to, groups)

\* the rows _generate_daily_aggregates writes, for a table with a dated row
DailyAggregates(all_trips) ==
    LET groups == DailyGroupBy(all_trips.rows, TripDates(all_trips.rows))
        min_date == Min({groups[i].date : i \in DOMAIN groups})
        max_date == Max({groups[i].date : i \in DOMAIN groups})
    IN  LeftMergeDates(min_date, max_date, groups)

(***************************************************************************)
(* Hourly station aggregator.                                              *)
(***************************************************************************)
\* (mutant) date and hour are taken from ended_at
TripsFilteredByEnd(all_trips, hourly_start) ==
    LET kept == SelectSeq(all_trips.rows,
                    LAMBDA r : r.started_at # NaT /\ r.started_at[1] >= hourly_start)
    IN  [i \in DOMAIN kept |->
            [start_station_id |-> kept[i].start_station_id,
             end_station_id |-> kept[i].end_station_id,
             date |-> DtDate(kept[i].ended_at),
             hour |-> DtHour(kept[i].ended_at),
             member |-> IF kept[i].member_casual = "member" THEN 1 ELSE 0,
             ebike |-> IF kept[i].rideable_type = "electric_bike" THEN 1 ELSE 0]]

\* (mutant) the trips that ended at hourly_start or later are kept
TripsFilteredEndedFrom(all_trips, hourly_start) ==
    LET kept == SelectSeq(all_trips.rows,
                    LAMBDA r : r.ended_at # NaT /\ r.ended_at[1] >= hourly_start)
    IN  [i \in DOMAIN kept |->
            [start_station_id |-> kept[i].start_station_id,
             end_station_id |-> kept[i].end_station_id,
             date |-> DtDate(kept[i].started_at),
             hour |-> DtHour(kept[i].started_at),
             member |-> IF kept[i].member_casual = "member" THEN 1 ELSE 0,
             ebike |-> IF kept[i].rideable_type = "electric_bike" THEN 1 ELSE 0]]

\* the trips from hourly_start on, with date, hour, member and ebike derived
\* (a comparison with NaT is False)
TripsFiltered(all_trips, hourly_start) ==
    LET kept == SelectSeq(all_trips.rows,
                    LAMBDA r : r.started_at # NaT /\ r.started_at[1] >= hourly_start)
    IN  [i \in DOMAIN kept |->
            [start_station_id |-> kept[i].start_station_id,
             end_station_id |-> kept[i].end_station_id,
             date |-> DtDate(kept[i].started_at),
             hour |-> DtHour(kept[i].started_at),
             member |-> IF kept[i].member_casual = "member" THEN 1 ELSE 0,
             ebike |-> IF kept[i].rideable_type = "electric_bike" THEN 1 ELSE 0]]

\* the grouping key of a filtered trip at one of its stations
HourlyKey(station_id, t) ==
    [station_id |-> station_id, date |-> t.date, hour |-> t.hour,
     member |-> t.member, ebike |-> t.ebike]

\* pickups: key -> number of filtered trips that start at an allow-listed station
PickupKeys(trips, stations_of_interest) ==
    {HourlyKey(trips[i].start_station_id, trips[i]) :
        i \in {j \in DOMAIN trips : trips[j].start_station_id \in stations_of_interest}}

PickupCount(trips, k) ==
    Cardinality({i \in DOMAIN trips : HourlyKey(trips[i].start_station_id, trips[i]) = k})

\* dropoffs: key -> number of filtered trips that end at an allow-listed station
DropoffKeys(trips, stations_of_interest) ==
    {HourlyKey(trips[i].end_station_id, trips[i]) :
        i \in {j \in DOMAIN trips : trips[j].end_station_id \in stations_of_interest}}

DropoffCount(trips, k) ==
    Cardinality({i \in DOMAIN trips : HourlyKey(trips[i].end_station_id, trips[i]) = k})

HourlyRow(k, pickups, dropoffs) ==
    [station_id |-> k.station_id, date |-> k.date, hour |-> k.hour,
     member |-> k.member, ebike |-> k.ebike, pickups |-> pickups, dropoffs |-> dropoffs]

\* (mutant) the two tables are stacked, not merged on the key
MergeOuterConcat(trips, pickup_keys, dropoff_keys) ==
    {HourlyRow(k, PickupCount(trips, k), 0) : k \in pickup_keys}
    \cup {HourlyRow(k, 0, DropoffCount(trips, k)) : k \in dropoff_keys}

\* (mutant) an inner merge: only the keys of both tables
MergeOuterInner(trips, pickup_keys, dropoff_keys) ==
    {HourlyRow(k, PickupCount(trips, k), DropoffCount(trips, k)) :
        k \in pickup_keys \cap dropoff_keys}

\* (mutant) every station of a key gets a row for every date, hour and
\* category of a key, with counts of 0 where it had no trip
MergeOuterZeroFilled(trips, pickup_keys, dropoff_keys) ==
    LET keys == pickup_keys \cup dropoff_keys
        filled == {[k EXCEPT !.station_id = q.station_id] : k \in keys, q \in keys}
    IN  {HourlyRow(k, IF k \in pickup_keys THEN PickupCount(trips, k) ELSE 0,
                      IF k \in dropoff_keys THEN DropoffCount(trips, k) ELSE 0) :
            k \in filled}

\* pd.merge(pickups, dropoffs, on=key, how="outer").fillna(0)
MergeOuter(trips, pickup_keys, dropoff_keys) ==
    {HourlyRow(k, PickupCount(trips, k), DropoffCount(trips, k)) :
        k \in pickup_keys \cap dropoff_keys}
    \cup {HourlyRow(k, PickupCount(trips, k), 0) : k \in pickup_keys \ dropoff_keys}
    \cup {HourlyRow(k, 0, DropoffCount(trips, k)) : k \in dropoff_keys \ pickup_keys}

\* (mutant) the rows are compared by date first, then by station_id
HourlyLeqDateFirst(a, b) ==
    IF a.date # b.date THEN a.date < b.date
    ELSE IF a.station_id # b.station_id THEN StrLess(a.station_id, b.station_id)
    ELSE IF a.hour # b.hour THEN a.hour < b.hour
    ELSE IF a.member # b.member THEN a.member < b.member
    ELSE a.ebike <= b.ebike

\* a sorts before b by (station_id, date, hour, member, ebike), or ties with it
HourlyLeq(a, b) ==
    IF a.station_id # b.station_id THEN StrLess(a.station_id, b.station_id)
    ELSE IF a.date # b.date THEN a.date < b.date
    ELSE IF a.hour # b.hour THEN a.hour < b.hour
    ELSE IF a.member # b.member THEN a.member < b.member
    ELSE a.ebike <= b.ebike

\* sort_values(["station_id", "date", "hour", "member", "ebike"])
RECURSIVE SortValues(_)
SortValues(rows) ==
    IF rows = {} THEN <<>>
    ELSE LET first == CHOOSE r \in rows : \A q \in rows : HourlyLeq(r, q)
         IN  <<first>> \o SortValues(rows \ {first})

\* the rows _generate_hourly_station_aggregates writes
HourlyAggregates(all_trips, hourly_start, stations_of_interest) ==
    LET trips == TripsFiltered(all_trips, hourly_start)
    IN  SortValues(MergeOuter(trips, PickupKeys(trips, stations_of_interest),
                              DropoffKeys(trips, stations_of_interest)))

(***************************************************************************)
(* The inputs the task may find on disk and in its configuration.          *)
(***************************************************************************)
A == << "A" >>
B == << "B" >>
X1 == << "X", "1" >>
Z9 == << "Z", "9" >>

\* a row of a raw trip CSV in the current column layout
RawTrip(started_at, ended_at, start_id, end_id, member_casual, rideable_type) ==
    [ride_id |-> << "1" >>, rideable_type |-> rideable_type,
     started_at |-> started_at, ended_at |-> ended_at,
     start_station_id |-> start_id, end_station_id |-> end_id,
     member_casual |-> member_casual]

\* a row of a raw trip CSV in the old column layout (no rideable_type)
LegacyTrip(starttime, stoptime, start_id, end_id, usertype) ==
    ("tripduration" :> << "9" >>) @@ ("starttime" :> starttime)
    @@ ("stoptime" :> stoptime) @@ ("start station id" :> start_id)
    @@ ("end station id" :> end_id) @@ ("usertype" :> usertype)

CurrentColumns ==
    {"ride_id", "rideable_type", "started_at", "ended_at", "start_station_id",
     "end_station_id", "member_casual"}

LegacyColumns ==
    {"tripduration", "starttime", "stoptime", "start station id", "end station id",
     "usertype"}

\* the raw trips a current-layout file may hold
CurrentTrips ==
    { \* 10 minutes, A to B
      RawTrip(<<2023, 4, 1, 8, 0, 0>>, <<2023, 4, 1, 8, 10, 0>>, A, B,
              "member", "classic_bike"),
      \* exactly 1 minute, A back to A
      RawTrip(<<2023, 4, 1, 8, 5, 0>>, <<2023, 4, 1, 8, 6, 0>>, A, A,
              "casual", "classic_bike"),
      \* exactly 3 minutes, A back to A
      RawTrip(<<2023, 4, 1, 8, 5, 0>>, <<2023, 4, 1, 8, 8, 0>>, A, A,
              "member", "classic_bike"),
      \* exactly 120 minutes over midnight, two days later, B to A
      RawTrip(<<2023, 4, 3, 23, 30, 0>>, <<2023, 4, 4, 1, 30, 0>>, B, A,
              "member", "electric_bike"),
      \* 2 minutes 59 seconds from midnight, B to an id metadata never knows
      RawTrip(<<2023, 4, 2, 0, 0, 0>>, <<2023, 4, 2, 0, 2, 59>>, B, Z9,
              "casual", "electric_bike"),
      \* exactly 1 minute, B to A
      RawTrip(<<2023, 4, 1, 8, 59, 0>>, <<2023, 4, 1, 9, 0, 0>>, B, A,
              "member", "electric_bike"),
      \* 59 seconds
      RawTrip(<<2023, 4, 1, 8, 0, 0>>, <<2023, 4, 1, 8, 0, 59>>, A, B,
              "member", "classic_bike"),
      \* 120 minutes and 1 second
      RawTrip(<<2023, 4, 1, 8, 0, 0>>, <<2023, 4, 1, 10, 0, 1>>, B, A,
              "casual", "classic_bike"),
      \* started_at does not parse (April has 30 days)
      RawTrip(<<2023, 4, 31, 8, 0, 0>>, <<2023, 4, 1, 8, 10, 0>>, A, B,
              "member", "classic_bike"),
      \* ended_at is empty
      RawTrip(<<2023, 4, 1, 8, 0, 0>>, <<>>, B, A, "member", "classic_bike"),
      \* from X1, 10 minutes
      RawTrip(<<2023, 4, 1, 8, 0, 0>>, <<2023, 4, 1, 8, 10, 0>>, X1, A,
              "member", "classic_bike"),
      \* to X1, 10 minutes
      RawTrip(<<2023, 4, 2, 9, 0, 0>>, <<2023, 4, 2, 9, 10, 0>>, B, X1,
              "casual", "electric_bike"),
      \* 10 minutes over midnight into 2023-04-02, A to B
      RawTrip(<<2023, 4, 1, 23, 55, 0>>, <<2023, 4, 2, 0, 5, 0>>, A, B,
              "casual", "classic_bike") }

\* the raw trips an old-layout file may hold
LegacyTrips ==
    { \* 15 minutes over midnight into 2023-04-01, B to A
      LegacyTrip(<<2023, 3, 31, 23, 50, 0>>, <<2023, 4, 1, 0, 5, 0>>, B, A,
                 "Subscriber") }

\* the content of a trip CSV file of n rows or fewer
TripFrames(n) ==
    {Frame(CurrentColumns, rows) : rows \in BoundedSeq(CurrentTrips, n)}
    \cup {Frame(LegacyColumns, rows) : rows \in BoundedSeq(LegacyTrips, n)}

\* the content of a trip CSV file of exactly k rows
TripFramesOfLen(k) ==
    {Frame(CurrentColumns, rows) : rows \in SeqsOfLen(CurrentTrips, k)}
    \cup {Frame(LegacyColumns, rows) : rows \in SeqsOfLen(LegacyTrips, k)}

DirEntry(stem, ext, frame) == [stem |-> stem, ext |-> ext, frame |-> frame]

\* an archive left in the directory: not a CSV file
ZipEntry == DirEntry("202305-bluebikes-tripdata", ".zip", Frame({}, <<>>))

\* the directories of raw trips: the archive and zero, one or two CSV files
\* holding MaxTrips rows or fewer together
RawTripsDirs ==
    { << ZipEntry >> }
    \cup {<< ZipEntry, DirEntry("202304-bluebikes-tripdata", ".csv", f) >> :
            f \in TripFrames(MaxTrips)}
    \cup UNION {
           {<< DirEntry("202303-bluebikes-tripdata", ".csv", f), ZipEntry,
               DirEntry("202304-bluebikes-tripdata", ".csv", g) >> :
                f \in TripFramesOfLen(k), g \in TripFrames(MaxTrips - k)} :
           k \in 0..MaxTrips}

\* the orders os.listdir may return the entries of a directory in
Listings(dir) ==
    {[i \in DOMAIN dir |-> dir[p[i]]] :
        p \in {q \in [DOMAIN dir -> DOMAIN dir] : \A i, j \in DOMAIN dir : i # j => q[i] # q[j]}}

StationRow(station_id, short_name) == [station_id |-> station_id, short_name |-> short_name]

\* station_information.csv: missing, or its rows
StationMetadataFiles ==
    { [exists |-> FALSE, rows |-> <<>>],
      [exists |-> TRUE,
       rows |-> << StationRow(<<"1">>, A), StationRow(<<"9">>, B), StationRow(<<"1", "9">>, <<>>) >>],
      [exists |-> TRUE,
       rows |-> << StationRow(<<"1">>, A), StationRow(<<"9">>, B), StationRow(<<"1", "9">>, X1) >>] }

\* what the stations-of-interest JSON file parses to
StationsOfInterestFiles ==
    { [is_list |-> TRUE, items |-> << A >>],
      [is_list |-> TRUE, items |-> << A, B >>],
      [is_list |-> TRUE, items |-> << >>],
      [is_list |-> FALSE, items |-> << >>] }

\* hourly_start_date values of the configuration: <<y, m, d>> for "y-m-d"
HourlyStartDates ==
    { <<2023, 4, 1>>, <<2023, 4, 2>>, <<2023, 3, 31>>, <<2023, 4, 31>>, <<2023, 4>> }

OutputStorages == {"local", "drive", "s3"}

Range(f) == {f[i] : i \in DOMAIN f}

(***************************************************************************)
(* The state of one invocation of the task.  A file the task only reads    *)
(* has a content fixed before the run; it enters the state when it is      *)
(* first read (<<>> before, <<content>> after) and stays as read.          *)
(***************************************************************************)
VARIABLES
    pc,                            \* the step of the task that ran last
    error,                         \* the exception that ended the run
    run,                           \* 1 in the first run of the task, 2 in a re-run
    hourly_start_date,             \* ctx.hourly_start_date
    raw_trips_dir,                 \* ctx.raw_trips_dir
    station_metadata_file,         \* ctx.station_metadata_path
    stations_of_interest_file,     \* ctx.stations_of_interest_path
    loaded_trips,                  \* the table _load_and_prepare_trips returned
    metadata_station_ids,          \* the known ids
    all_trips,                     \* the table being cleaned and aggregated
    daily_aggregates_csv,          \* processed_dir / daily_aggregates.csv
    hourly_station_aggregates_csv, \* processed_dir / hourly_station_aggregates.csv
    first_run,                     \* the two output files as the first run left them
    all_trips_is_input             \* all_trips is the table object that was loaded

aggregate_vars ==
    << pc, error, run, hourly_start_date, raw_trips_dir, station_metadata_file,
       stations_of_interest_file, loaded_trips, metadata_station_ids, all_trips,
       daily_aggregates_csv, hourly_station_aggregates_csv, first_run,
       all_trips_is_input >>

(***************************************************************************)
(* The state of one invocation of download_trips_data.  The directory is   *)
(* the set of the files of ctx.raw_trips_dir; the server is not part of    *)
(* the state: each request gets any of the answers a server can give.      *)
(***************************************************************************)
VARIABLES
    download_pc,                   \* the step of download_trips_data to run next
    download_error,                \* the exception that ended the download run
    download_run,                  \* 1 in the first run of the task, 2 in a re-run
    start_date,                    \* ctx.start_date
    end_date,                      \* ctx.end_date
    date_range,                    \* the months _generate_date_range returned
    date_index,                    \* the position of date_str in date_range
    pattern,                       \* the pattern _construct_file_url returned
    results,                       \* what _download_and_extract_trip_file returned, month by month
    requests_log,                  \* the HEAD and GET requests of the run, in order
    trips_dir_files                \* the files of ctx.raw_trips_dir

download_trips_vars ==
    << download_pc, download_error, download_run, start_date, end_date, date_range,
       date_index, pattern, results, requests_log, trips_dir_files >>

(***************************************************************************)
(* The state of one invocation of download_stations_data.                  *)
(***************************************************************************)
VARIABLES
    stations_pc,                   \* the step of download_stations_data to run next
    stations_error,                \* the exception that ended the stations run
    stations_run,                  \* 1 in the first run of the task, 2 in a re-run
    download_metadata,             \* ctx.download_metadata
    download_status,               \* ctx.download_status
    station_info_data,             \* what _fetch_json returned for station_information
    fetch_log,                     \* the GET requests of _fetch_json in the run, in order
    station_information_csv,       \* stations_dir / station_information.csv
    station_status_csvs            \* the station_status_{timestamp}.csv files, oldest first

download_stations_vars ==
    << stations_pc, stations_error, stations_run, download_metadata, download_status,
       station_info_data, fetch_log, station_information_csv, station_status_csvs >>

vars == << aggregate_vars, download_trips_vars, download_stations_vars >>

inputs == << raw_trips_dir, station_metadata_file, stations_of_interest_file >>
outputs == << daily_aggregates_csv, hourly_station_aggregates_csv >>

NoError == [type |-> "", raised_in |-> "", message_names |-> ""]
NoFrame == Frame({}, <<>>)

Init ==
    /\ pc = "new"
    /\ error = NoError
    /\ run = 1
    /\ hourly_start_date = <<>>
    /\ raw_trips_dir = <<>>
    /\ station_metadata_file = <<>>
    /\ stations_of_interest_file = <<>>
    /\ loaded_trips = NoFrame
    /\ metadata_station_ids = {}
    /\ all_trips = NoFrame
    /\ daily_aggregates_csv = <<>>
    /\ hourly_station_aggregates_csv = <<>>
    /\ first_run = <<>>
    /\ all_trips_is_input = FALSE
    /\ download_pc = "start"
    /\ download_error = NoError
    /\ download_run = 1
    /\ start_date = <<>>
    /\ end_date = <<>>
    /\ date_range = <<>>
    /\ date_index = 0
    /\ pattern = ""
    /\ results = <<>>
    /\ requests_log = <<>>
    /\ trips_dir_files = {}
    /\ stations_pc = "new"
    /\ stations_error = NoError
    /\ stations_run = 1
    /\ download_metadata = FALSE
    /\ download_status = FALSE
    /\ station_info_data = <<>>
    /\ fetch_log = <<>>
    /\ station_information_csv = <<>>
    /\ station_status_csvs = <<>>

\* the task an error message tells the operator to run first
MessageNames(raised_in) ==
    IF raised_in = "_load_station_metadata" THEN "download_stations_data" ELSE ""

\* an exception propagates out of the task
Raise(type, raised_in) ==
    /\ pc' = "failed"
    /\ error' = [type |-> type, raised_in |-> raised_in,
                 message_names |-> MessageNames(raised_in)]

\* the content of a file: what was read before, or any content if none was
Content(file, contents) == IF file = <<>> THEN contents ELSE {file[1]}

(***************************************************************************)
(* AggregateTripsContext.__post_init__                                     *)
(***************************************************************************)
\* valid_storages of _validate_storage
valid_storages == {"local", "drive"}

\* min_date of _validate_hourly_start_date: datetime(2023, 4, 1)
MinHourlyStart == Strptime(<<2023, 4, 1>>)

\* (mutant) only the format is tested, not the earliest date
ValidHourlyStartDateFormatOnly(date_str) == StrptimeOk(date_str)

\* _validate_hourly_start_date raises nothing
ValidHourlyStartDate(date_str) ==
    StrptimeOk(date_str) /\ ~(Strptime(date_str) < MinHourlyStart)

PostInit ==
    /\ pc = "new"
    /\ \E output_storage \in OutputStorages, date_str \in HourlyStartDates,
          stations_file_exists \in BOOLEAN :
         /\ hourly_start_date' = date_str
         /\ IF output_storage \notin valid_storages
            THEN Raise("ValueError", "_validate_storage")
            ELSE IF ~ValidHourlyStartDate(date_str)
            THEN Raise("ValueError", "_validate_hourly_start_date")
            ELSE IF ~stations_file_exists
            THEN Raise("FileNotFoundError", "_validate_stations_file")
            ELSE pc' = "ready" /\ error' = NoError
    /\ UNCHANGED << run, inputs, loaded_trips, metadata_station_ids, all_trips,
                    outputs, first_run >>
    /\ UNCHANGED all_trips_is_input
    /\ UNCHANGED << download_trips_vars, download_stations_vars >>

(***************************************************************************)
(* aggregate_trips, step by step                                           *)
(***************************************************************************)
LoadTrips ==
    /\ pc = "ready"
    /\ \E dir \in Content(raw_trips_dir, RawTripsDirs) :
         /\ raw_trips_dir' = << dir >>
         /\ \E listing \in Listings(dir) :
              LET csv_files == CsvFiles(listing)
              IN  IF csv_files = <<>>
                  THEN /\ Raise("FileNotFoundError", "_load_all_trip_csvs")
                       /\ UNCHANGED << loaded_trips, all_trips, all_trips_is_input >>
                  ELSE /\ loaded_trips' = LoadAndPrepareTrips(csv_files)
                       /\ all_trips' = loaded_trips'
                       /\ all_trips_is_input' = TRUE
                       /\ pc' = "loaded"
                       /\ error' = NoError
    /\ UNCHANGED << run, hourly_start_date, station_metadata_file,
                    stations_of_interest_file, metadata_station_ids, outputs,
                    first_run >>
    /\ UNCHANGED << download_trips_vars, download_stations_vars >>

\* (mutant) a missing file is read as a file of no rows
LoadStationMetadataMissingAsEmpty ==
    /\ pc = "loaded"
    /\ \E file \in Content(station_metadata_file, StationMetadataFiles) :
         /\ station_metadata_file' = << file >>
         /\ metadata_station_ids' = MetadataStationIds(file.rows)
         /\ pc' = "metadata"
         /\ error' = NoError
    /\ UNCHANGED << run, hourly_start_date, raw_trips_dir, stations_of_interest_file,
                    loaded_trips, all_trips, outputs, first_run >>
    /\ UNCHANGED all_trips_is_input
    /\ UNCHANGED << download_trips_vars, download_stations_vars >>

LoadStationMetadata ==
    /\ pc = "loaded"
    /\ \E file \in Content(station_metadata_file, StationMetadataFiles) :
         /\ station_metadata_file' = << file >>
         /\ IF ~file.exists
            THEN /\ Raise("FileNotFoundError", "_load_station_metadata")
                 /\ UNCHANGED metadata_station_ids
            ELSE /\ metadata_station_ids' = MetadataStationIds(file.rows)
                 /\ pc' = "metadata"
                 /\ error' = NoError
    /\ UNCHANGED << run, hourly_start_date, raw_trips_dir, stations_of_interest_file,
                    loaded_trips, all_trips, outputs, first_run >>
    /\ UNCHANGED all_trips_is_input
    /\ UNCHANGED << download_trips_vars, download_stations_vars >>

\* (mutant) the maintenance trips are dropped from the table the step is
\* given, in place: no copy is made
FilterMaintenanceInPlace ==
    /\ pc = "metadata"
    /\ IF Len(all_trips.rows) = 0
       THEN /\ Raise("ZeroDivisionError", "_filter_maintenance_trips")
            /\ UNCHANGED << all_trips, loaded_trips >>
       ELSE /\ all_trips' = FilterMaintenanceTrips(all_trips, metadata_station_ids)
            /\ loaded_trips' = IF all_trips_is_input THEN all_trips' ELSE loaded_trips
            /\ pc' = "maintenance"
            /\ error' = NoError
    /\ UNCHANGED << run, hourly_start_date, inputs, metadata_station_ids, outputs,
                    first_run, all_trips_is_input >>
    /\ UNCHANGED << download_trips_vars, download_stations_vars >>

\* _clean_trip_data, first step.  The step's log line divides by the number
\* of rows it was given.  The filtered table is a copy: all_trips is bound to
\* a new table object.
FilterMaintenance ==
    /\ pc = "metadata"
    /\ IF Len(all_trips.rows) = 0
       THEN /\ Raise("ZeroDivisionError", "_filter_maintenance_trips")
            /\ UNCHANGED << all_trips, all_trips_is_input >>
       ELSE /\ all_trips' = FilterMaintenanceTrips(all_trips, metadata_station_ids)
            /\ all_trips_is_input' = FALSE
            /\ pc' = "maintenance"
            /\ error' = NoError
    /\ UNCHANGED << run, hourly_start_date, inputs, loaded_trips,
                    metadata_station_ids, outputs, first_run >>
    /\ UNCHANGED << download_trips_vars, download_stations_vars >>

\* _clean_trip_data, second step: the column is assigned to the table object
\* the step is given, which is the loaded table if no step before made a copy
CalculateDuration ==
    /\ pc = "maintenance"
    /\ all_trips' = CalculateTripDuration(all_trips)
    /\ loaded_trips' = IF all_trips_is_input THEN all_trips' ELSE loaded_trips
    /\ pc' = "duration"
    /\ UNCHANGED << error, run, hourly_start_date, inputs,
                    metadata_station_ids, outputs, first_run, all_trips_is_input >>
    /\ UNCHANGED << download_trips_vars, download_stations_vars >>

\* (mutant) the percentages of the log lines are left out when there was
\* no row to start from
FilterOutliersGuarded ==
    /\ pc = "duration"
    /\ all_trips' = FilterOutlierTrips(all_trips)
    /\ pc' = "cleaned"
    /\ error' = NoError
    /\ UNCHANGED << run, hourly_start_date, inputs, loaded_trips,
                    metadata_station_ids, outputs, first_run >>
    /\ UNCHANGED all_trips_is_input
    /\ UNCHANGED << download_trips_vars, download_stations_vars >>

\* _clean_trip_data, third step and return.  Both log lines divide by a
\* number of rows: the step's by the rows it was given, _clean_trip_data's
\* by the rows of the loaded table.
FilterOutliers ==
    /\ pc = "duration"
    /\ IF Len(all_trips.rows) = 0
       THEN /\ Raise("ZeroDivisionError", "_filter_outlier_trips")
            /\ UNCHANGED all_trips
       ELSE IF Len(loaded_trips.rows) = 0
       THEN /\ Raise("ZeroDivisionError", "_clean_trip_data")
            /\ UNCHANGED all_trips
       ELSE /\ all_trips' = FilterOutlierTrips(all_trips)
            /\ pc' = "cleaned"
            /\ error' = NoError
    /\ UNCHANGED << run, hourly_start_date, inputs, loaded_trips,
                    metadata_station_ids, outputs, first_run >>
    /\ UNCHANGED all_trips_is_input
    /\ UNCHANGED << download_trips_vars, download_stations_vars >>

\* (mutant) a table with no dated row is written as a file of no rows
GenerateDailyWritesEmpty ==
    /\ pc = "cleaned"
    /\ daily_aggregates_csv' =
          << IF TripDates(all_trips.rows) = {} THEN <<>> ELSE DailyAggregates(all_trips) >>
    /\ pc' = "daily"
    /\ error' = NoError
    /\ UNCHANGED << run, hourly_start_date, inputs, loaded_trips,
                    metadata_station_ids, all_trips, hourly_station_aggregates_csv,
                    first_run >>
    /\ UNCHANGED all_trips_is_input
    /\ UNCHANGED << download_trips_vars, download_stations_vars >>

\* _generate_daily_aggregates.  With no dated row min_date and max_date are
\* NaN and pd.date_range raises.
GenerateDaily ==
    /\ pc = "cleaned"
    /\ IF TripDates(all_trips.rows) = {}
       THEN /\ Raise("ValueError", "_generate_daily_aggregates")
            /\ UNCHANGED daily_aggregates_csv
       ELSE /\ daily_aggregates_csv' = << DailyAggregates(all_trips) >>
            /\ pc' = "daily"
            /\ error' = NoError
    /\ UNCHANGED << run, hourly_start_date, inputs, loaded_trips,
                    metadata_station_ids, all_trips, hourly_station_aggregates_csv,
                    first_run >>
    /\ UNCHANGED all_trips_is_input
    /\ UNCHANGED << download_trips_vars, download_stations_vars >>

\* (mutant) when the step fails, daily_aggregates.csv is removed again
GenerateHourlyRollsBack ==
    /\ pc = "daily"
    /\ \E file \in Content(stations_of_interest_file, StationsOfInterestFiles) :
         /\ stations_of_interest_file' = << file >>
         /\ IF ~file.is_list
            THEN /\ Raise("ValueError", "_load_stations_of_interest")
                 /\ daily_aggregates_csv' = <<>>
                 /\ UNCHANGED hourly_station_aggregates_csv
            ELSE IF ~({"member_casual", "rideable_type"} \subseteq all_trips.columns)
            THEN /\ Raise("KeyError", "_generate_hourly_station_aggregates")
                 /\ daily_aggregates_csv' = <<>>
                 /\ UNCHANGED hourly_station_aggregates_csv
            ELSE /\ hourly_station_aggregates_csv' =
                        << HourlyAggregates(all_trips, Strptime(hourly_start_date),
                                            Range(file.items)) >>
                 /\ pc' = "done"
                 /\ error' = NoError
                 /\ UNCHANGED daily_aggregates_csv
    /\ UNCHANGED << run, hourly_start_date, raw_trips_dir, station_metadata_file,
                    loaded_trips, metadata_station_ids, all_trips, first_run,
                    all_trips_is_input >>
    /\ UNCHANGED << download_trips_vars, download_stations_vars >>

\* (mutant) what the file parses to is not tested to be a list: a value that
\* is no list is used as a list of no station
GenerateHourlyUnchecked ==
    /\ pc = "daily"
    /\ \E file \in Content(stations_of_interest_file, StationsOfInterestFiles) :
         /\ stations_of_interest_file' = << file >>
         /\ IF ~({"member_casual", "rideable_type"} \subseteq all_trips.columns)
            THEN /\ Raise("KeyError", "_generate_hourly_station_aggregates")
                 /\ UNCHANGED hourly_station_aggregates_csv
            ELSE /\ hourly_station_aggregates_csv' =
                        << HourlyAggregates(all_trips, Strptime(hourly_start_date),
                                            Range(file.items)) >>
                 /\ pc' = "done"
                 /\ error' = NoError
    /\ UNCHANGED << run, hourly_start_date, raw_trips_dir, station_metadata_file,
                    loaded_trips, metadata_station_ids, all_trips,
                    daily_aggregates_csv, first_run >>
    /\ UNCHANGED all_trips_is_input
    /\ UNCHANGED << download_trips_vars, download_stations_vars >>

\* _generate_hourly_station_aggregates
GenerateHourly ==
    /\ pc = "daily"
    /\ \E file \in Content(stations_of_interest_file, StationsOfInterestFiles) :
         /\ stations_of_interest_file' = << file >>
         /\ IF ~file.is_list
            THEN /\ Raise("ValueError", "_load_stations_of_interest")
                 /\ UNCHANGED hourly_station_aggregates_csv
            ELSE IF ~({"member_casual", "rideable_type"} \subseteq all_trips.columns)
            THEN /\ Raise("KeyError", "_generate_hourly_station_aggregates")
                 /\ UNCHANGED hourly_station_aggregates_csv
            ELSE /\ hourly_station_aggregates_csv' =
                        << HourlyAggregates(all_trips, Strptime(hourly_start_date),
                                            Range(file.items)) >>
                 /\ pc' = "done"
                 /\ error' = NoError
    /\ UNCHANGED << run, hourly_start_date, raw_trips_dir, station_metadata_file,
                    loaded_trips, metadata_station_ids, all_trips,
                    daily_aggregates_csv, first_run >>
    /\ UNCHANGED all_trips_is_input
    /\ UNCHANGED << download_trips_vars, download_stations_vars >>

\* the task is invoked again with the same configuration, on the same files
Rerun ==
    /\ run = 1
    /\ pc \in {"done", "failed"}
    /\ error.raised_in \notin
          {"_validate_storage", "_validate_hourly_start_date", "_validate_stations_file"}
    /\ run' = 2
    /\ first_run' = << outputs >>
    /\ pc' = "ready"
    /\ error' = NoError
    /\ loaded_trips' = NoFrame
    /\ all_trips' = NoFrame
    /\ metadata_station_ids' = {}
    /\ all_trips_is_input' = FALSE
    /\ UNCHANGED << hourly_start_date, inputs, outputs >>
    /\ UNCHANGED << download_trips_vars, download_stations_vars >>

Next ==
    \/ PostInit
    \/ LoadTrips
    \/ LoadStationMetadata
    \/ FilterMaintenance
    \/ CalculateDuration
    \/ FilterOutliers
    \/ GenerateDaily
    \/ GenerateHourly

Spec == Init /\ [][Next]_vars

\* the task run twice
NextRerun == Next \/ Rerun

SpecRerun == Init /\ [][NextRerun]_vars

(***************************************************************************)
(* download_trips_data: the months of the range, one after the other.      *)
(***************************************************************************)
\* a month YYYYMM is << year, month >>
TripMonths == { << 2023, 11 >>, << 2023, 12 >>, << 2024, 1 >> }

\* the values of ctx.start_date and ctx.end_date: six digits each, as
\* _validate_date_format requires; "202313" has six digits too
DateStrings == TripMonths \cup { << 2023, 13 >> }

\* datetime.strptime(date_str, "%Y%m") parses the string
StrptimeMonthOk(d) == d[2] \in 1..12

MonthLeq(a, b) == a[1] < b[1] \/ (a[1] = b[1] /\ a[2] <= b[2])

\* current + relativedelta(months=1)
NextMonth(d) == IF d[2] = 12 THEN << d[1] + 1, 1 >> ELSE << d[1], d[2] + 1 >>

\* the loop of _generate_date_range: while current <= end
RECURSIVE DateList(_, _)
DateList(current, end) ==
    IF MonthLeq(current, end)
    THEN << current >> \o DateList(NextMonth(current), end)
    ELSE <<>>

\* the files of the raw trips directory
TripFile(d, suffix) == [date_str |-> d, suffix |-> suffix]
ExpectedCsv(d) == TripFile(d, "-bluebikes-tripdata.csv")
ZipPath(d) == TripFile(d, "-bluebikes-tripdata.zip")
\* a member of the archive that is not named as the archive is
OtherCsv(d) == TripFile(d, "_bluebikes_tripdata.csv")

\* the raw trips directory before the first run
InitialTripsDirs ==
    { {}, { ExpectedCsv(<< 2023, 12 >>) }, { ExpectedCsv(d) : d \in TripMonths } }

\* what requests.head gives: a status code or an exception
HeadOutcomes == { "200", "404", "RequestException" }

\* what _download_file meets: the body is written, raise_for_status raises,
\* requests.get raises, or the stream breaks after the file was opened
GetOutcomes == { "200", "HTTPError", "RequestException", "ChunkedEncodingError" }

\* what _extract_zip meets: the archive holds the expected CSV, it holds
\* a CSV of another name, or it is no zip archive
ExtractOutcomes == { "expected_csv", "other_csv", "BadZipFile" }

Request(method, d, url_pattern, outcome) ==
    [method |-> method, date_str |-> d, pattern |-> url_pattern, outcome |-> outcome]

\* the month in hand
DateStr == date_range[date_index]

\* _download_and_extract_trip_file returns and the loop of
\* download_trips_data counts the result and takes the next month
ReturnResult(result) ==
    /\ results' = Append(results, result)
    /\ IF date_index < Len(date_range)
       THEN date_index' = date_index + 1 /\ download_pc' = "check"
       ELSE date_index' = date_index /\ download_pc' = "finished"

\* download_trips_data up to its loop
GenerateDateRange ==
    /\ download_pc = "start"
    /\ \E s \in Content(start_date, DateStrings), e \in Content(end_date, DateStrings),
          files \in IF download_run = 1 THEN InitialTripsDirs ELSE {trips_dir_files} :
         /\ start_date' = << s >>
         /\ end_date' = << e >>
         /\ trips_dir_files' = files
         /\ IF ~(StrptimeMonthOk(s) /\ StrptimeMonthOk(e))
            THEN /\ download_pc' = "failed"
                 /\ download_error' = [type |-> "ValueError",
                                       raised_in |-> "_generate_date_range",
                                       message_names |-> ""]
                 /\ UNCHANGED << date_range, date_index >>
            ELSE /\ Len(DateList(s, e)) <= MaxMonths
                 /\ date_range' = DateList(s, e)
                 /\ date_index' = IF date_range' = <<>> THEN 0 ELSE 1
                 /\ download_pc' = IF date_range' = <<>> THEN "finished" ELSE "check"
                 /\ download_error' = NoError
    /\ UNCHANGED << download_run, pattern, results, requests_log >>
    /\ UNCHANGED << aggregate_vars, download_stations_vars >>

\* (mutant) the archive is fetched whether or not the CSV is there
CheckExistingNeverSkips ==
    /\ download_pc = "check"
    /\ download_pc' = "head_standard"
    /\ UNCHANGED << results, date_index >>
    /\ UNCHANGED << download_error, download_run, start_date, end_date, date_range,
                    pattern, requests_log, trips_dir_files >>
    /\ UNCHANGED << aggregate_vars, download_stations_vars >>

\* _download_and_extract_trip_file: the month is skipped if its CSV exists
CheckExisting ==
    /\ download_pc = "check"
    /\ IF ExpectedCsv(DateStr) \in trips_dir_files
       THEN ReturnResult("skipped")
       ELSE /\ download_pc' = "head_standard"
            /\ UNCHANGED << results, date_index >>
    /\ UNCHANGED << download_error, download_run, start_date, end_date, date_range,
                    pattern, requests_log, trips_dir_files >>
    /\ UNCHANGED << aggregate_vars, download_stations_vars >>

\* (mutant) any answer to the HEAD request makes the standard URL the one
HeadStandardAnyResponse ==
    /\ download_pc = "head_standard"
    /\ \E outcome \in HeadOutcomes :
         /\ requests_log' = Append(requests_log, Request("HEAD", DateStr, "standard", outcome))
         /\ IF outcome # "RequestException"
            THEN pattern' = "standard" /\ download_pc' = "get"
            ELSE pattern' = pattern /\ download_pc' = "head_csv"
    /\ UNCHANGED << download_error, download_run, start_date, end_date, date_range,
                    date_index, results, trips_dir_files >>
    /\ UNCHANGED << aggregate_vars, download_stations_vars >>

\* _construct_file_url, the standard pattern
HeadStandard ==
    /\ download_pc = "head_standard"
    /\ \E outcome \in HeadOutcomes :
         /\ requests_log' = Append(requests_log, Request("HEAD", DateStr, "standard", outcome))
         /\ IF outcome = "200"
            THEN pattern' = "standard" /\ download_pc' = "get"
            ELSE pattern' = pattern /\ download_pc' = "head_csv"
    /\ UNCHANGED << download_error, download_run, start_date, end_date, date_range,
                    date_index, results, trips_dir_files >>
    /\ UNCHANGED << aggregate_vars, download_stations_vars >>

\* _construct_file_url, the fallback pattern and the default
HeadCsv ==
    /\ download_pc = "head_csv"
    /\ \E outcome \in HeadOutcomes :
         /\ requests_log' = Append(requests_log, Request("HEAD", DateStr, "csv", outcome))
         /\ pattern' = IF outcome = "200" THEN "csv" ELSE "standard"
         /\ download_pc' = "get"
    /\ UNCHANGED << download_error, download_run, start_date, end_date, date_range,
                    date_index, results, trips_dir_files >>
    /\ UNCHANGED << aggregate_vars, download_stations_vars >>

\* (mutant) a download that failed is tried once more
DownloadFileRetrying ==
    /\ download_pc = "get"
    /\ \E outcome \in GetOutcomes :
         /\ requests_log' = Append(requests_log, Request("GET", DateStr, pattern, outcome))
         /\ IF outcome = "200"
            THEN /\ trips_dir_files' = trips_dir_files \cup { ZipPath(DateStr) }
                 /\ download_pc' = "extract"
                 /\ UNCHANGED << results, date_index >>
            ELSE IF \E i \in DOMAIN requests_log :
                       requests_log[i].method = "GET" /\ requests_log[i].date_str = DateStr
            THEN /\ UNCHANGED trips_dir_files
                 /\ ReturnResult("failed")
            ELSE UNCHANGED << trips_dir_files, download_pc, results, date_index >>
    /\ UNCHANGED << download_error, download_run, start_date, end_date, date_range,
                    pattern >>
    /\ UNCHANGED << aggregate_vars, download_stations_vars >>

\* _download_file and the test of its result: one GET, every exception is
\* caught and makes the month "failed"
DownloadFile ==
    /\ download_pc = "get"
    /\ \E outcome \in GetOutcomes :
         /\ requests_log' = Append(requests_log, Request("GET", DateStr, pattern, outcome))
         /\ IF outcome = "200"
            THEN /\ trips_dir_files' = trips_dir_files \cup { ZipPath(DateStr) }
                 /\ download_pc' = "extract"
                 /\ UNCHANGED << results, date_index >>
            ELSE /\ trips_dir_files' =
                        IF outcome = "ChunkedEncodingError"
                        THEN trips_dir_files \cup { ZipPath(DateStr) }
                        ELSE trips_dir_files
                 /\ ReturnResult("failed")
    /\ UNCHANGED << download_error, download_run, start_date, end_date, date_range,
                    pattern >>
    /\ UNCHANGED << aggregate_vars, download_stations_vars >>

\* _extract_zip and the test of its result
ExtractZip ==
    /\ download_pc = "extract"
    /\ \E outcome \in ExtractOutcomes :
         IF outcome = "BadZipFile"
         THEN /\ UNCHANGED trips_dir_files
              /\ ReturnResult("failed")
         ELSE /\ trips_dir_files' =
                     (trips_dir_files \ { ZipPath(DateStr) })
                     \cup { IF outcome = "expected_csv"
                            THEN ExpectedCsv(DateStr) ELSE OtherCsv(DateStr) }
              /\ ReturnResult("success")
    /\ UNCHANGED << download_error, download_run, start_date, end_date, date_range,
                    pattern, requests_log >>
    /\ UNCHANGED << aggregate_vars, download_stations_vars >>

\* the task is run again with the same configuration, on the directory as
\* the first run left it
RerunDownloadTrips ==
    /\ download_run = 1
    /\ download_pc = "finished"
    /\ download_run' = 2
    /\ download_pc' = "start"
    /\ date_range' = <<>>
    /\ date_index' = 0
    /\ pattern' = ""
    /\ results' = <<>>
    /\ requests_log' = <<>>
    /\ UNCHANGED << download_error, start_date, end_date, trips_dir_files >>
    /\ UNCHANGED << aggregate_vars, download_stations_vars >>

NextDownloadTrips ==
    \/ GenerateDateRange
    \/ CheckExisting
    \/ HeadStandard
    \/ HeadCsv
    \/ DownloadFile
    \/ ExtractZip

SpecDownloadTrips == Init /\ [][NextDownloadTrips]_vars

\* every step of the task is taken: it is a sequential program
SpecDownloadTripsFair == SpecDownloadTrips /\ WF_vars(NextDownloadTrips)

\* the task run twice
NextDownloadTripsRerun == NextDownloadTrips \/ RerunDownloadTrips

SpecDownloadTripsRerun == Init /\ [][NextDownloadTripsRerun]_vars

(***************************************************************************)
(* download_stations_data: the station metadata, then the station status.  *)
(***************************************************************************)
\* the values of ctx.version
Versions == { "1.1", "2.3" }

\* SUPPORTED_VERSION of _validate_version
SUPPORTED_VERSION == "1.1"

\* the exceptions _fetch_json turns into None
FetchFailures == { "HTTPError", "RequestException", "JSONDecodeError" }

\* a station of station_information.json; rental_uris stands for the fields
\* the task does not keep
StationJson(station_id, region_id) ==
    [station_id |-> station_id, region_id |-> region_id, rental_uris |-> "uris"]

\* data.stations of station_information.json
StationInformationJsons ==
    { <<>>, << StationJson("A", "10") >>, << StationJson("A", "99") >>,
      << StationJson("A", "10"), StationJson("B", "") >> }

\* data.regions of system_regions.json; the last one has a region without name
SystemRegionsJsons ==
    { <<>>, << [region_id |-> "10", name |-> "Boston"] >>, << [region_id |-> "10"] >> }

\* data.stations of station_status.json
StationStatusJsons ==
    { <<>>, << [station_id |-> "A", num_bikes_available |-> 5, num_ebikes_available |-> 2] >> }

\* _parse_station_information: the kept fields of every station
ParseStationInformation(stations) ==
    [i \in DOMAIN stations |->
        [station_id |-> stations[i].station_id, region_id |-> stations[i].region_id]]

\* _parse_system_regions reads region["region_id"] and region["name"]
RegionsWellFormed(regions_list) ==
    \A i \in DOMAIN regions_list : {"region_id", "name"} \subseteq DOMAIN regions_list[i]

\* _parse_system_regions: region_id -> name
ParseSystemRegions(regions_list) ==
    [id \in {regions_list[i].region_id : i \in DOMAIN regions_list} |->
        LET last == Max({i \in DOMAIN regions_list : regions_list[i].region_id = id})
        IN  regions_list[last].name]

\* _merge_regions_into_stations: regions.get(region_id, "Unknown")
MergeRegionsIntoStations(stations, regions) ==
    [i \in DOMAIN stations |->
        [station_id |-> stations[i].station_id, region_id |-> stations[i].region_id,
         region_name |-> IF stations[i].region_id \in DOMAIN regions
                         THEN regions[stations[i].region_id] ELSE "Unknown"]]

\* _parse_station_status: the kept fields and num_conventional_available
ParseStationStatus(stations) ==
    [i \in DOMAIN stations |->
        [station_id |-> stations[i].station_id,
         num_bikes_available |-> stations[i].num_bikes_available,
         num_ebikes_available |-> stations[i].num_ebikes_available,
         num_conventional_available |->
             stations[i].num_bikes_available - stations[i].num_ebikes_available]]

Fetch(url, outcome) == [url |-> url, outcome |-> outcome]

StationsRaise(type, raised_in) ==
    /\ stations_pc' = "failed"
    /\ stations_error' = [type |-> type, raised_in |-> raised_in, message_names |-> ""]

\* DownloadStationsDataContext.__post_init__
StationsPostInit ==
    /\ stations_pc = "new"
    /\ \E output_storage \in OutputStorages, version \in Versions,
          metadata \in BOOLEAN, status \in BOOLEAN :
         /\ download_metadata' = metadata
         /\ download_status' = status
         /\ IF output_storage \notin valid_storages
            THEN StationsRaise("ValueError", "_validate_storage")
            ELSE IF version # SUPPORTED_VERSION
            THEN StationsRaise("ValueError", "_validate_version")
            ELSE IF ~metadata /\ ~status
            THEN StationsRaise("ValueError", "_validate_anything_to_download")
            ELSE stations_pc' = "ready" /\ stations_error' = NoError
    /\ UNCHANGED << stations_run, station_info_data, fetch_log,
                    station_information_csv, station_status_csvs >>
    /\ UNCHANGED << aggregate_vars, download_trips_vars >>

\* where download_stations_data goes when _download_metadata has returned
AfterMetadata == IF download_status THEN "fetch_status" ELSE "finished"

\* download_stations_data: the metadata if requested, then the status
DownloadStationsData ==
    /\ stations_pc = "ready"
    /\ stations_pc' = IF download_metadata THEN "fetch_information" ELSE AfterMetadata
    /\ UNCHANGED << stations_error, stations_run, download_metadata, download_status,
                    station_info_data, fetch_log, station_information_csv,
                    station_status_csvs >>
    /\ UNCHANGED << aggregate_vars, download_trips_vars >>

\* _download_metadata, step 1
FetchStationInformation ==
    /\ stations_pc = "fetch_information"
    /\ \E outcome \in FetchFailures \cup StationInformationJsons :
         /\ fetch_log' = Append(fetch_log, Fetch("station_information", outcome))
         /\ IF outcome \in FetchFailures
            THEN /\ station_info_data' = <<>>
                 /\ stations_pc' = AfterMetadata
            ELSE /\ station_info_data' = << outcome >>
                 /\ stations_pc' = "fetch_regions"
    /\ UNCHANGED << stations_error, stations_run, download_metadata, download_status,
                    station_information_csv, station_status_csvs >>
    /\ UNCHANGED << aggregate_vars, download_trips_vars >>

\* (mutant) without the regions the stations are saved with the region
\* name "Unknown"
DownloadMetadataWithoutRegions ==
    /\ stations_pc = "fetch_regions"
    /\ \E outcome \in FetchFailures \cup SystemRegionsJsons :
         /\ fetch_log' = Append(fetch_log, Fetch("system_regions", outcome))
         /\ LET regions_list == IF outcome \in FetchFailures THEN <<>> ELSE outcome
            IN  IF ~RegionsWellFormed(regions_list)
                THEN /\ StationsRaise("KeyError", "_parse_system_regions")
                     /\ UNCHANGED station_information_csv
                ELSE /\ station_information_csv' =
                            << MergeRegionsIntoStations(
                                   ParseStationInformation(station_info_data[1]),
                                   ParseSystemRegions(regions_list)) >>
                     /\ stations_pc' = AfterMetadata
                     /\ UNCHANGED stations_error
    /\ UNCHANGED << stations_run, download_metadata, download_status, station_info_data,
                    station_status_csvs >>
    /\ UNCHANGED << aggregate_vars, download_trips_vars >>

\* _download_metadata, steps 2 to 5: the regions are fetched, both answers
\* are parsed and merged, and the stations are saved if there is one
DownloadMetadata ==
    /\ stations_pc = "fetch_regions"
    /\ \E outcome \in FetchFailures \cup SystemRegionsJsons :
         /\ fetch_log' = Append(fetch_log, Fetch("system_regions", outcome))
         /\ IF outcome \in FetchFailures
            THEN /\ stations_pc' = AfterMetadata
                 /\ UNCHANGED << stations_error, station_information_csv >>
            ELSE IF ~RegionsWellFormed(outcome)
            THEN /\ StationsRaise("KeyError", "_parse_system_regions")
                 /\ UNCHANGED station_information_csv
            ELSE LET stations == MergeRegionsIntoStations(
                                     ParseStationInformation(station_info_data[1]),
                                     ParseSystemRegions(outcome))
                 IN  /\ station_information_csv' =
                            IF stations = <<>> THEN station_information_csv
                            ELSE << stations >>
                     /\ stations_pc' = AfterMetadata
                     /\ UNCHANGED stations_error
    /\ UNCHANGED << stations_run, download_metadata, download_status, station_info_data,
                    station_status_csvs >>
    /\ UNCHANGED << aggregate_vars, download_trips_vars >>

\* _download_status: the status is fetched, parsed and saved to a file of
\* its own if there is a station
DownloadStatus ==
    /\ stations_pc = "fetch_status"
    /\ \E outcome \in FetchFailures \cup StationStatusJsons :
         /\ fetch_log' = Append(fetch_log, Fetch("station_status", outcome))
         /\ station_status_csvs' =
                IF outcome \in FetchFailures \/ outcome = <<>>
                THEN station_status_csvs
                ELSE Append(station_status_csvs, ParseStationStatus(outcome))
    /\ stations_pc' = "finished"
    /\ UNCHANGED << stations_error, stations_run, download_metadata, download_status,
                    station_info_data, station_information_csv >>
    /\ UNCHANGED << aggregate_vars, download_trips_vars >>

\* the task is run again, on the directory as the first run left it
RerunDownloadStations ==
    /\ stations_run = 1
    /\ stations_pc = "finished"
    /\ stations_run' = 2
    /\ stations_pc' = "new"
    /\ station_info_data' = <<>>
    /\ fetch_log' = <<>>
    /\ UNCHANGED << stations_error, download_metadata, download_status,
                    station_information_csv, station_status_csvs >>
    /\ UNCHANGED << aggregate_vars, download_trips_vars >>

NextDownloadStations ==
    \/ StationsPostInit
    \/ DownloadStationsData
    \/ FetchStationInformation
    \/ DownloadMetadata
    \/ DownloadStatus
    \/ RerunDownloadStations

SpecDownloadStations == Init /\ [][NextDownloadStations]_vars

(***************************************************************************)
(* Properties.                                                             *)
(***************************************************************************)
\* all_trips is the table _clean_trip_data returned
Cleaned ==
    \/ pc \in {"cleaned", "daily", "done"}
    \/ /\ pc = "failed"
       /\ error.raised_in \in {"_generate_daily_aggregates", "_load_stations_of_interest",
                               "_generate_hourly_station_aggregates"}

\* daily_aggregates.csv was written by this run, from all_trips
DailyWritten ==
    \/ pc \in {"daily", "done"}
    \/ /\ pc = "failed"
       /\ error.raised_in \in {"_load_stations_of_interest",
                               "_generate_hourly_station_aggregates"}

\* hourly_station_aggregates.csv was written by this run, from all_trips
HourlyWritten == pc = "done"

CleanedRows == all_trips.rows
DailyRows == daily_aggregates_csv[1]
HourlyRows == hourly_station_aggregates_csv[1]

\* a cleaned row without its min_duration column: a row of the loaded table
WithoutDuration(r) == [c \in DOMAIN r \ {"min_duration"} |-> r[c]]

\* the ids of the loaded trips that metadata does not know and that start with X
MaintenanceSet ==
    {x \in {loaded_trips.rows[i].start_station_id : i \in DOMAIN loaded_trips.rows}
           \cup {loaded_trips.rows[i].end_station_id : i \in DOMAIN loaded_trips.rows} :
        x \notin metadata_station_ids /\ x # <<>> /\ x[1] = "X"}

\* C1: every row of the cleaned table has 1 <= min_duration <= 120 minutes and
\* is not a same-station trip of less than 3 minutes; a loaded trip of exactly
\* 1 or exactly 120 minutes that is neither a maintenance trip nor a
\* same-station trip of less than 3 minutes is in the cleaned table.
C1_CleanedDurations ==
    Cleaned =>
        /\ \A i \in DOMAIN CleanedRows :
             LET r == CleanedRows[i]
             IN  /\ r.min_duration # <<>>
                 /\ r.min_duration[1] >= 1 * 60
                 /\ r.min_duration[1] <= 120 * 60
                 /\ ~(r.start_station_id = r.end_station_id /\ r.min_duration[1] < 3 * 60)
        /\ \A i \in DOMAIN loaded_trips.rows :
             LET r == loaded_trips.rows[i]
             IN  ( /\ r.started_at # <<>>
                   /\ r.ended_at # <<>>
                   /\ r.ended_at[1] - r.started_at[1] \in {1 * 60, 120 * 60}
                   /\ r.start_station_id \notin MaintenanceSet
                   /\ r.end_station_id \notin MaintenanceSet
                   /\ ~(r.start_station_id = r.end_station_id
                        /\ r.ended_at[1] - r.started_at[1] < 3 * 60) )
                 => \E j \in DOMAIN CleanedRows : WithoutDuration(CleanedRows[j]) = r

\* a cleaned table that holds a trip of exactly 1 minute and a trip of exactly
\* 120 minutes, from a loaded table of which a row was dropped
C1_Witness ==
    /\ Cleaned
    /\ \E i \in DOMAIN CleanedRows : CleanedRows[i].min_duration = << 60 >>
    /\ \E i \in DOMAIN CleanedRows : CleanedRows[i].min_duration = << 7200 >>

\* C2: no row of the cleaned table starts or ends at an id of the maintenance
\* set, whatever the trip's duration.
C2_NoMaintenanceStation ==
    Cleaned =>
        \A i \in DOMAIN CleanedRows :
            /\ CleanedRows[i].start_station_id \notin MaintenanceSet
            /\ CleanedRows[i].end_station_id \notin MaintenanceSet

\* a cleaned table from a loaded table that held a trip ending at a
\* maintenance id, of a duration the outlier filter keeps
C2_Witness ==
    /\ Cleaned
    /\ CleanedRows # <<>>
    /\ \E i \in DOMAIN loaded_trips.rows :
         LET r == loaded_trips.rows[i]
         IN  /\ r.end_station_id \in MaintenanceSet
             /\ r.started_at # <<>> /\ r.ended_at # <<>>
             /\ r.ended_at[1] - r.started_at[1] = 600

\* the started_at dates of the cleaned trips
CleanedDates == {CleanedRows[i].started_at[1] \div 86400 : i \in DOMAIN CleanedRows}

\* C3: the daily aggregate has exactly one row for every date from the
\* first to the last started_at date of the cleaned trips, in increasing
\* order with no gap, and a date no cleaned trip started on has trip_count 0.
C3_DailyDenseRange ==
    DailyWritten =>
        LET first == CHOOSE d \in CleanedDates : \A e \in CleanedDates : d <= e
            last == CHOOSE d \in CleanedDates : \A e \in CleanedDates : d >= e
        IN  /\ Len(DailyRows) = last - first + 1
            /\ \A k \in DOMAIN DailyRows : DailyRows[k].date = first + k - 1
            /\ \A k \in DOMAIN DailyRows :
                 DailyRows[k].date \notin CleanedDates => DailyRows[k].trip_count = 0

\* a daily aggregate of three dates, the middle one without a trip
C3_Witness ==
    /\ DailyWritten
    /\ Len(DailyRows) = 3
    /\ DailyRows[1].trip_count > 0
    /\ DailyRows[2].trip_count = 0
    /\ DailyRows[3].trip_count > 0

RECURSIVE SumOf(_, _)
SumOf(rows, column) ==
    IF rows = <<>> THEN 0 ELSE Head(rows)[column] + SumOf(Tail(rows), column)

\* C4: the trip_count of each date is the number of cleaned trips that
\* started on it, and the trip_counts add up to the number of cleaned trips.
C4_DailyCounts ==
    DailyWritten =>
        /\ \A k \in DOMAIN DailyRows :
             DailyRows[k].trip_count =
                Cardinality({i \in DOMAIN CleanedRows :
                    CleanedRows[i].started_at[1] \div 86400 = DailyRows[k].date})
        /\ SumOf(DailyRows, "trip_count") = Len(CleanedRows)

\* the hourly aggregate is written, and the daily aggregate counts two trips
\* of one date, one of which started before hourly_start_date and one of
\* which touches no station of interest
C4_Witness ==
    /\ HourlyWritten
    /\ \E k \in DOMAIN DailyRows : DailyRows[k].trip_count = 2
    /\ \E i \in DOMAIN CleanedRows :
         CleanedRows[i].started_at[1] < Strptime(hourly_start_date)
    /\ \E i \in DOMAIN CleanedRows :
         /\ CleanedRows[i].start_station_id \notin Range(stations_of_interest_file[1].items)
         /\ CleanedRows[i].end_station_id \notin Range(stations_of_interest_file[1].items)

\* the five-tuple key of a row of the hourly aggregate
KeyOf(r) == << r.station_id, r.date, r.hour, r.member, r.ebike >>

\* C5: in the hourly aggregate no key is in two rows, and every row has
\* pickups >= 0, dropoffs >= 0, hour in 0..23, member and ebike in {0, 1}.
C5_HourlyKeysUnique ==
    HourlyWritten =>
        /\ \A i, j \in DOMAIN HourlyRows :
             i # j => KeyOf(HourlyRows[i]) # KeyOf(HourlyRows[j])
        /\ \A i \in DOMAIN HourlyRows :
             /\ HourlyRows[i].pickups >= 0
             /\ HourlyRows[i].dropoffs >= 0
             /\ HourlyRows[i].hour \in 0..23
             /\ HourlyRows[i].member \in {0, 1}
             /\ HourlyRows[i].ebike \in {0, 1}

\* an hourly aggregate of two rows, one with both a pickup and a dropoff
C5_Witness ==
    /\ HourlyWritten
    /\ Len(HourlyRows) >= 2
    /\ \E i \in DOMAIN HourlyRows :
         HourlyRows[i].pickups > 0 /\ HourlyRows[i].dropoffs > 0

\* the stations of interest, once their file is read
Allowed == Range(stations_of_interest_file[1].items)

\* the cleaned trips that started at hourly_start_date 00:00:00 or later
DateFiltered ==
    {i \in DOMAIN CleanedRows :
        CleanedRows[i].started_at[1] >=
            DateOrdinal(hourly_start_date[1], hourly_start_date[2], hourly_start_date[3])
                * 86400}

\* the key a cleaned trip is counted under at a station: the station with the
\* date, hour, member flag and ebike flag of its started_at and categories
KeyAt(station, i) ==
    << station,
       CleanedRows[i].started_at[1] \div 86400,
       (CleanedRows[i].started_at[1] % 86400) \div 3600,
       IF CleanedRows[i].member_casual = "member" THEN 1 ELSE 0,
       IF CleanedRows[i].rideable_type = "electric_bike" THEN 1 ELSE 0 >>

PickupKeySet ==
    {KeyAt(CleanedRows[i].start_station_id, i) :
        i \in {j \in DateFiltered : CleanedRows[j].start_station_id \in Allowed}}

DropoffKeySet ==
    {KeyAt(CleanedRows[i].end_station_id, i) :
        i \in {j \in DateFiltered : CleanedRows[j].end_station_id \in Allowed}}

\* C6: the keys of the hourly aggregate are the pickup keys and the dropoff
\* keys together; each is in exactly one row, and a key with no dropoffs
\* (no pickups) has dropoffs = 0 (pickups = 0).
C6_HourlyOuterUnion ==
    HourlyWritten =>
        /\ {KeyOf(HourlyRows[i]) : i \in DOMAIN HourlyRows} = PickupKeySet \cup DropoffKeySet
        /\ \A k \in PickupKeySet \cup DropoffKeySet :
             /\ Cardinality({i \in DOMAIN HourlyRows : KeyOf(HourlyRows[i]) = k}) = 1
             /\ \A i \in DOMAIN HourlyRows :
                  KeyOf(HourlyRows[i]) = k =>
                     /\ k \notin DropoffKeySet => HourlyRows[i].dropoffs = 0
                     /\ k \notin PickupKeySet => HourlyRows[i].pickups = 0

\* an hourly aggregate with a row of pickups only and a row of dropoffs only
C6_Witness ==
    /\ HourlyWritten
    /\ \E i \in DOMAIN HourlyRows :
         HourlyRows[i].pickups > 0 /\ HourlyRows[i].dropoffs = 0
    /\ \E i \in DOMAIN HourlyRows :
         HourlyRows[i].pickups = 0 /\ HourlyRows[i].dropoffs > 0

\* C7: in every row of the hourly aggregate, pickups is the number of
\* date-filtered cleaned trips that start at the row's station and have the
\* row's date, hour, member and ebike, all taken from started_at and the
\* trip's categories, and dropoffs is the number of those that end there.
C7_HourlyCounts ==
    HourlyWritten =>
        \A r \in DOMAIN HourlyRows :
            /\ HourlyRows[r].pickups =
                  Cardinality({i \in DateFiltered :
                      KeyAt(CleanedRows[i].start_station_id, i) = KeyOf(HourlyRows[r])})
            /\ HourlyRows[r].dropoffs =
                  Cardinality({i \in DateFiltered :
                      KeyAt(CleanedRows[i].end_station_id, i) = KeyOf(HourlyRows[r])})

\* the hourly aggregate of two date-filtered trips: one that ends on the day
\* after it started, counted as a dropoff only, and one counted in no row
C7_Witness ==
    /\ HourlyWritten
    /\ \E i \in DateFiltered :
         /\ CleanedRows[i].start_station_id \notin Allowed
         /\ CleanedRows[i].end_station_id \in Allowed
         /\ CleanedRows[i].ended_at[1] \div 86400 # CleanedRows[i].started_at[1] \div 86400
    /\ \E i \in DateFiltered :
         /\ CleanedRows[i].start_station_id \notin Allowed
         /\ CleanedRows[i].end_station_id \notin Allowed

\* C8: a second run of the task on the same files and configuration leaves
\* the two output files as the first run left them.
C8_RerunSameOutputs ==
    (run = 2 /\ pc \in {"done", "failed"}) => outputs = first_run[1]

\* a second run is done over a directory of two csv files with a row each,
\* and wrote an hourly aggregate with a row
C8_Witness ==
    /\ run = 2
    /\ pc = "done"
    /\ Len(CsvFiles(raw_trips_dir[1])) = 2
    /\ \A i \in DOMAIN raw_trips_dir[1] :
         raw_trips_dir[1][i].ext = ".csv" => Len(raw_trips_dir[1][i].frame.rows) = 1
    /\ HourlyRows # <<>>

\* the two trips of the scenario, as loaded
ScenarioTrip1 ==
    [rideable_type |-> "classic_bike", started_at |-> << (90 * 24 + 8) * 3600 >>,
     ended_at |-> << (90 * 24 + 8) * 3600 + 600 >>, start_station_id |-> << "A" >>,
     end_station_id |-> << "B" >>, member_casual |-> "member"]

ScenarioTrip2 ==
    [rideable_type |-> "classic_bike", started_at |-> << (90 * 24 + 8) * 3600 + 300 >>,
     ended_at |-> << (90 * 24 + 8) * 3600 + 360 >>, start_station_id |-> << "A" >>,
     end_station_id |-> << "A" >>, member_casual |-> "casual"]

\* the loaded table is the two trips of the scenario, A and B are known
Scenario ==
    /\ loaded_trips.rows \in { << ScenarioTrip1, ScenarioTrip2 >>,
                               << ScenarioTrip2, ScenarioTrip1 >> }
    /\ {<< "A" >>, << "B" >>} \subseteq metadata_station_ids

\* the rows of the scenario's hourly aggregate; 2023-04-01 is day 90 of 2023
ScenarioRowA ==
    [station_id |-> << "A" >>, date |-> 90, hour |-> 8, member |-> 1, ebike |-> 0,
     pickups |-> 1, dropoffs |-> 0]

ScenarioRowB ==
    [station_id |-> << "B" >>, date |-> 90, hour |-> 8, member |-> 1, ebike |-> 0,
     pickups |-> 0, dropoffs |-> 1]

ScenarioCleanedAndDaily ==
    /\ (Cleaned /\ Scenario) =>
          /\ Len(CleanedRows) = 1
          /\ WithoutDuration(CleanedRows[1]) = ScenarioTrip1
    /\ (DailyWritten /\ Scenario) =>
          DailyRows = << [date |-> 90, trip_count |-> 1] >>

ScenarioHourly ==
    HourlyRows = IF << "B" >> \in Allowed THEN << ScenarioRowA, ScenarioRowB >>
                 ELSE << ScenarioRowA >>

\* C9 as stated: in the two-trip scenario only trip 1 survives cleaning, the
\* daily aggregate is 1 for 2023-04-01, and with A in the allow-list the
\* hourly aggregate is the row of A, and the row of B if B is in the list.
C9_ScenarioAsStated ==
    /\ ScenarioCleanedAndDaily
    /\ (HourlyWritten /\ Scenario /\ << "A" >> \in Allowed) => ScenarioHourly

\* C9, amended: the same, the hourly aggregate being the one of a run
\* configured with hourly_start_date = 2023-04-01.
C9_ScenarioFromStartDate ==
    /\ ScenarioCleanedAndDaily
    /\ (HourlyWritten /\ Scenario /\ << "A" >> \in Allowed
        /\ hourly_start_date = << 2023, 4, 1 >>) => ScenarioHourly

\* the scenario ran to its end with A and B in the allow-list and
\* hourly_start_date = 2023-04-01
C9_Witness ==
    /\ HourlyWritten
    /\ Scenario
    /\ Allowed = {<< "A" >>, << "B" >>}
    /\ hourly_start_date = << 2023, 4, 1 >>
    /\ Len(HourlyRows) = 2

\* a raw timestamp cell of the inputs that does not parse
Unparseable(cell) == cell \in { <<>>, << 2023, 4, 31, 8, 0, 0 >> }

\* the rows of the csv files of the directory: << entry, row >> indices
RawCsvRows ==
    {<< e, i >> \in (DOMAIN raw_trips_dir[1]) \X (1..MaxTrips) :
        /\ raw_trips_dir[1][e].ext = ".csv"
        /\ i \in DOMAIN raw_trips_dir[1][e].frame.rows}

RawCell(e, i, column, old_column) ==
    LET frame == raw_trips_dir[1][e].frame
    IN  IF column \in frame.columns THEN frame.rows[i][column] ELSE frame.rows[i][old_column]

\* the table _load_and_prepare_trips returned is in the state
Loaded == loaded_trips # NoFrame

\* the trips of a table with an empty started_at or ended_at
NullTimestamped(rows) ==
    {i \in DOMAIN rows : rows[i].started_at = <<>> \/ rows[i].ended_at = <<>>}

\* C10: a timestamp cell that does not parse does not fail the load, it is
\* loaded as an empty cell; the trip's min_duration is then empty; no trip
\* with an empty started_at or ended_at is in the cleaned table, and the two
\* aggregates count no more trips than the loaded trips with both timestamps.
C10_UnparsedTimestampDropped ==
    /\ (pc = "failed" /\ error.raised_in = "_load_all_trip_csvs") =>
          \A e \in DOMAIN raw_trips_dir[1] : raw_trips_dir[1][e].ext # ".csv"
    /\ Loaded =>
          /\ Len(loaded_trips.rows) = Cardinality(RawCsvRows)
          /\ Cardinality({i \in DOMAIN loaded_trips.rows : loaded_trips.rows[i].started_at = <<>>})
               = Cardinality({x \in RawCsvRows :
                                 Unparseable(RawCell(x[1], x[2], "started_at", "starttime"))})
          /\ Cardinality({i \in DOMAIN loaded_trips.rows : loaded_trips.rows[i].ended_at = <<>>})
               = Cardinality({x \in RawCsvRows :
                                 Unparseable(RawCell(x[1], x[2], "ended_at", "stoptime"))})
    /\ (pc = "duration" \/ Cleaned) =>
          \A i \in NullTimestamped(all_trips.rows) : all_trips.rows[i].min_duration = <<>>
    /\ Cleaned => NullTimestamped(CleanedRows) = {}
    /\ DailyWritten =>
          SumOf(DailyRows, "trip_count")
             <= Len(loaded_trips.rows) - Cardinality(NullTimestamped(loaded_trips.rows))
    /\ HourlyWritten =>
          /\ SumOf(HourlyRows, "pickups")
                <= Len(loaded_trips.rows) - Cardinality(NullTimestamped(loaded_trips.rows))
          /\ SumOf(HourlyRows, "dropoffs")
                <= Len(loaded_trips.rows) - Cardinality(NullTimestamped(loaded_trips.rows))

\* both aggregates are written from a loaded table that held a trip whose
\* started_at did not parse, next to a trip that is counted
C10_Witness ==
    /\ HourlyWritten
    /\ \E x \in RawCsvRows : RawCell(x[1], x[2], "started_at", "starttime") = << 2023, 4, 31, 8, 0, 0 >>
    /\ \E i \in DOMAIN loaded_trips.rows : loaded_trips.rows[i].started_at = <<>>
    /\ SumOf(DailyRows, "trip_count") = 1
    /\ SumOf(HourlyRows, "pickups") = 1

\* the table _filter_maintenance_trips returned is in all_trips
MaintenanceFiltered == pc = "maintenance"

\* the number of rows of a table that equal r
Copies(rows, r) == Cardinality({i \in DOMAIN rows : rows[i] = r})

\* a station id that starts with X and that metadata does not know
UnknownX(id) == id # <<>> /\ id[1] = "X" /\ id \notin metadata_station_ids

\* C11: the maintenance filter drops a trip only if its start or its end
\* station id is unknown to metadata and starts with X: a trip neither of
\* whose ids is such an id (unknown without the X, or X but known) is in the
\* table the step returns, as many times as in the table it was given, and
\* the step adds no row.
C11_MaintenanceDropsOnlyUnknownX ==
    MaintenanceFiltered =>
        /\ \A i \in DOMAIN loaded_trips.rows :
             LET r == loaded_trips.rows[i]
             IN  (~UnknownX(r.start_station_id) /\ ~UnknownX(r.end_station_id))
                    => Copies(all_trips.rows, r) = Copies(loaded_trips.rows, r)
        /\ \A i \in DOMAIN all_trips.rows :
             Copies(all_trips.rows, all_trips.rows[i])
                <= Copies(loaded_trips.rows, all_trips.rows[i])

\* the step kept a trip to an unknown id without the X and a trip from an
\* X id that metadata knows
C11_Witness ==
    /\ MaintenanceFiltered
    /\ \E i \in DOMAIN all_trips.rows :
         /\ all_trips.rows[i].end_station_id \notin metadata_station_ids
         /\ all_trips.rows[i].end_station_id[1] # "X"
    /\ \E i \in DOMAIN all_trips.rows :
         /\ all_trips.rows[i].start_station_id \in metadata_station_ids
         /\ all_trips.rows[i].start_station_id[1] = "X"

\* C12 as stated: both station ids of every row of the cleaned table are
\* known ids.
C12_BothIdsKnown ==
    Cleaned =>
        \A i \in DOMAIN CleanedRows :
            /\ CleanedRows[i].start_station_id \in metadata_station_ids
            /\ CleanedRows[i].end_station_id \in metadata_station_ids

\* C12, amended: each station id of every row of the cleaned table is a
\* known id or an id that does not start with X; an unknown id without the
\* X stays in the cleaned table.
C12_IdsKnownOrNotX ==
    Cleaned =>
        \A i \in DOMAIN CleanedRows :
            \A id \in {CleanedRows[i].start_station_id, CleanedRows[i].end_station_id} :
                id \in metadata_station_ids \/ ~StartsWithX(id)

\* a cleaned table with a trip to an id that metadata does not know, from a
\* loaded table that also held a trip from an unknown X id
C12_Witness ==
    /\ Cleaned
    /\ \E i \in DOMAIN CleanedRows :
         CleanedRows[i].end_station_id \notin metadata_station_ids
    /\ \E i \in DOMAIN loaded_trips.rows :
         UnknownX(loaded_trips.rows[i].start_station_id)

\* midnight of hourly_start_date, in seconds, and its day
StartMidnight ==
    DateOrdinal(hourly_start_date[1], hourly_start_date[2], hourly_start_date[3]) * 86400

\* C13: only the cleaned trips with started_at >= midnight of
\* hourly_start_date are counted in the hourly aggregate: every row has
\* date >= hourly_start_date, the pickups (dropoffs) of all rows add up to the
\* number of such trips that start (end) at a station of interest, and a trip
\* that started at that midnight exactly is counted.
C13_HourlyFromStartDate ==
    HourlyWritten =>
        /\ \A r \in DOMAIN HourlyRows : HourlyRows[r].date * 86400 >= StartMidnight
        /\ SumOf(HourlyRows, "pickups") =
              Cardinality({i \in DOMAIN CleanedRows :
                  /\ CleanedRows[i].started_at[1] >= StartMidnight
                  /\ CleanedRows[i].start_station_id \in Allowed})
        /\ SumOf(HourlyRows, "dropoffs") =
              Cardinality({i \in DOMAIN CleanedRows :
                  /\ CleanedRows[i].started_at[1] >= StartMidnight
                  /\ CleanedRows[i].end_station_id \in Allowed})
        /\ \A i \in DOMAIN CleanedRows :
              ( /\ CleanedRows[i].started_at[1] = StartMidnight
                /\ CleanedRows[i].start_station_id \in Allowed )
              => \E r \in DOMAIN HourlyRows :
                    /\ HourlyRows[r].station_id = CleanedRows[i].start_station_id
                    /\ HourlyRows[r].date * 86400 = StartMidnight
                    /\ HourlyRows[r].hour = 0
                    /\ HourlyRows[r].pickups >= 1

\* the hourly aggregate of a trip between two stations of interest that
\* started before hourly_start_date and ended after its midnight, and of a
\* trip that started at that midnight from a station of interest
C13_Witness ==
    /\ HourlyWritten
    /\ \E i \in DOMAIN CleanedRows :
         /\ CleanedRows[i].started_at[1] < StartMidnight
         /\ CleanedRows[i].ended_at[1] >= StartMidnight
         /\ CleanedRows[i].start_station_id \in Allowed
         /\ CleanedRows[i].end_station_id \in Allowed
    /\ \E i \in DOMAIN CleanedRows :
         /\ CleanedRows[i].started_at[1] = StartMidnight
         /\ CleanedRows[i].start_station_id \in Allowed
    /\ Len(HourlyRows) = 1

\* the key of row a is before the key of row b in lexicographic order: the
\* rows differ in a column of the key, and in the first such column a is less
KeyBefore(a, b) ==
    \/ StrLess(a.station_id, b.station_id)
    \/ a.station_id = b.station_id /\ a.date < b.date
    \/ a.station_id = b.station_id /\ a.date = b.date /\ a.hour < b.hour
    \/ /\ a.station_id = b.station_id /\ a.date = b.date /\ a.hour = b.hour
       /\ a.member < b.member
    \/ /\ a.station_id = b.station_id /\ a.date = b.date /\ a.hour = b.hour
       /\ a.member = b.member /\ a.ebike < b.ebike

\* C14: the rows of the hourly aggregate are in ascending lexicographic
\* order of (station_id, date, hour, member, ebike), and the station_id of
\* every row is a station of interest.
C14_HourlySortedAllowed ==
    HourlyWritten =>
        /\ \A i \in 1..(Len(HourlyRows) - 1) : KeyBefore(HourlyRows[i], HourlyRows[i + 1])
        /\ \A i \in DOMAIN HourlyRows : HourlyRows[i].station_id \in Allowed

\* an hourly aggregate with a row of a later date before a row of another
\* station, and two rows of one station on different dates, from cleaned
\* trips one of which ends at a station that is not of interest
C14_Witness ==
    /\ HourlyWritten
    /\ \E i, j \in DOMAIN HourlyRows :
         /\ i < j
         /\ HourlyRows[i].station_id # HourlyRows[j].station_id
         /\ HourlyRows[i].date > HourlyRows[j].date
    /\ \E i, j \in DOMAIN HourlyRows :
         /\ i < j
         /\ HourlyRows[i].station_id = HourlyRows[j].station_id
         /\ HourlyRows[i].date < HourlyRows[j].date
    /\ \E i \in DOMAIN CleanedRows : CleanedRows[i].end_station_id \notin Allowed

\* _clean_trip_data returned a table of no rows and the next step was taken
EmptyCleanedAggregated == Cleaned /\ CleanedRows = <<>> /\ pc # "cleaned"

\* the daily aggregator failed and daily_aggregates.csv was not written
DailyFailedUnwritten ==
    /\ pc = "failed"
    /\ error.raised_in = "_generate_daily_aggregates"
    /\ daily_aggregates_csv = <<>>

\* C15: when no trip remains after cleaning, the daily aggregator fails and
\* writes no daily_aggregates.csv, no file of no rows either; its error (the
\* ValueError of pd.date_range, which has no date to start from) is the
\* outcome of this case only: the daily aggregator fails on no other table.
C15_EmptyFailsWithValueError ==
    /\ EmptyCleanedAggregated =>
          DailyFailedUnwritten /\ error.type = "ValueError"
    /\ (pc = "failed" /\ error.raised_in = "_generate_daily_aggregates") =>
          CleanedRows = <<>>
    /\ (DailyWritten \/ daily_aggregates_csv # <<>>) =>
          (CleanedRows # <<>> /\ daily_aggregates_csv[1] # <<>>)

\* the daily aggregator failed on the cleaned table of two loaded trips
C15_Witness ==
    /\ DailyFailedUnwritten
    /\ Len(loaded_trips.rows) = 2
    /\ CleanedRows = <<>>

\* the hourly aggregator ran on an allow-list that is a list
HourlyRan == stations_of_interest_file # <<>> /\ stations_of_interest_file[1].is_list

\* no date-filtered cleaned trip starts or ends at a station of interest
AllowListExcludesAll ==
    \A i \in DateFiltered :
        /\ CleanedRows[i].start_station_id \notin Allowed
        /\ CleanedRows[i].end_station_id \notin Allowed

\* C16: when no date-filtered cleaned trip starts or ends at a station of
\* interest (the allow-list may be empty), the hourly aggregator raises no
\* error and writes hourly_station_aggregates.csv with no data row.
C16_ExcludedAllWritesNoRows ==
    (HourlyRan /\ AllowListExcludesAll) =>
        /\ pc = "done"
        /\ error = NoError
        /\ hourly_station_aggregates_csv = << <<>> >>

\* C17: when the stations-of-interest file parses to a value that is not a
\* list, the hourly aggregator fails with the ValueError of
\* _load_stations_of_interest, raised before any column of the trips is read,
\* and hourly_station_aggregates.csv is not written; daily_aggregates.csv was
\* written before.
C17_NotAListFails ==
    (stations_of_interest_file # <<>> /\ ~stations_of_interest_file[1].is_list) =>
        /\ pc = "failed"
        /\ error.type = "ValueError"
        /\ error.raised_in = "_load_stations_of_interest"
        /\ hourly_station_aggregates_csv = <<>>
        /\ daily_aggregates_csv # <<>>

\* the hourly aggregator failed on a file that is not a list, given a table
\* without the rideable_type column, which it would fail to read
C17_Witness ==
    /\ pc = "failed"
    /\ error.raised_in = "_load_stations_of_interest"
    /\ ~stations_of_interest_file[1].is_list
    /\ "rideable_type" \notin all_trips.columns
    /\ CleanedRows # <<>>

\* the configuration was validated: __post_init__ returned or raised
Validated == pc # "new"

\* __post_init__ raised
ConstructionFailed ==
    /\ pc = "failed"
    /\ error.raised_in \in {"_validate_storage", "_validate_hourly_start_date",
                            "_validate_stations_file"}

\* the configured value is a date year-month-day of the calendar
IsCalendarDate(s) ==
    /\ Len(s) = 3
    /\ s[2] \in 1..12
    /\ s[3] \in 1..DaysInMonth(s[1], s[2])

\* the configured date is 2023-04-01 or a later date
FromApril2023(s) == s[1] > 2023 \/ (s[1] = 2023 /\ s[2] >= 4)

NoCsvFile ==
    /\ raw_trips_dir # <<>>
    /\ \A e \in DOMAIN raw_trips_dir[1] : raw_trips_dir[1][e].ext # ".csv"

\* neither output file is written
NoOutput == daily_aggregates_csv = <<>> /\ hourly_station_aggregates_csv = <<>>

\* C19: when the raw trips directory holds no CSV file, the trip loader
\* fails with the FileNotFoundError of _load_all_trip_csvs; the station
\* metadata is not read, no table is loaded or cleaned, and no output file is
\* written.  The loader fails this way in no other case.
C19_NoCsvFails ==
    /\ NoCsvFile =>
          /\ pc = "failed"
          /\ error.type = "FileNotFoundError"
          /\ error.raised_in = "_load_all_trip_csvs"
          /\ station_metadata_file = <<>>
          /\ metadata_station_ids = {}
          /\ loaded_trips = NoFrame
          /\ all_trips = NoFrame
          /\ NoOutput
    /\ (pc = "failed" /\ error.raised_in = "_load_all_trip_csvs") => NoCsvFile

\* the loader failed on a directory that holds an archive and no CSV file
C19_Witness ==
    /\ pc = "failed"
    /\ error.raised_in = "_load_all_trip_csvs"
    /\ Len(raw_trips_dir[1]) = 1
    /\ raw_trips_dir[1][1].ext = ".zip"

\* C20: when station_information.csv does not exist, the metadata loader
\* fails with a FileNotFoundError whose message names the
\* download_stations_data task; the loaded table is not cleaned and no output
\* file is written.
C20_NoMetadataFails ==
    (station_metadata_file # <<>> /\ ~station_metadata_file[1].exists) =>
        /\ pc = "failed"
        /\ error.type = "FileNotFoundError"
        /\ error.raised_in = "_load_station_metadata"
        /\ error.message_names = "download_stations_data"
        /\ metadata_station_ids = {}
        /\ all_trips = loaded_trips
        /\ NoOutput

\* the metadata loader failed after two trips were loaded
C20_Witness ==
    /\ pc = "failed"
    /\ error.raised_in = "_load_station_metadata"
    /\ ~station_metadata_file[1].exists
    /\ Len(loaded_trips.rows) = 2

\* the hourly step failed
HourlyFailed ==
    /\ pc = "failed"
    /\ error.raised_in \in {"_load_stations_of_interest",
                            "_generate_hourly_station_aggregates"}

\* C21: an error is fatal and leaves the outputs written so far.  The
\* hourly step starts (it reads the allow-list) only when daily_aggregates.csv
\* is written; when it fails the run is failed with the error, the daily file
\* stays as it was written, the hourly file is not written; and after a
\* failed step no step runs: a failed run changes nothing any more.
C21_FatalErrorsPartialOutputs ==
    [][ /\ pc # "failed"
        /\ (stations_of_interest_file' # stations_of_interest_file) =>
              /\ daily_aggregates_csv # <<>>
              /\ daily_aggregates_csv' = daily_aggregates_csv
        /\ HourlyFailed' =>
              /\ error'.type # ""
              /\ daily_aggregates_csv' # <<>>
              /\ hourly_station_aggregates_csv' = <<>>
        /\ (pc' = "failed") => error'.type # ""
        /\ (error'.type # "") => pc' = "failed" ]_vars

\* the hourly step failed on an allow-list that is no list, after the daily
\* aggregate of a trip was written
C21_Witness ==
    /\ HourlyFailed
    /\ error.type = "ValueError"
    /\ daily_aggregates_csv # <<>>
    /\ hourly_station_aggregates_csv = <<>>
    /\ Len(DailyRows) >= 1

\* a step of _clean_trip_data is next
InCleaner == pc \in {"metadata", "maintenance", "duration"}

\* C23: _clean_trip_data leaves the table it is given as it was: no step of
\* it changes the rows or the columns of the loaded table, which gets no
\* min_duration column, and the table it returns is another table object.
C23_CleanerKeepsInput ==
    [][ InCleaner =>
          /\ loaded_trips' = loaded_trips
          /\ "min_duration" \notin loaded_trips'.columns
          /\ (pc' = "cleaned" => ~all_trips_is_input') ]_vars

\* the cleaner returned one trip of the two of the table it was given, which
\* still has its two rows
C23_Witness ==
    /\ pc = "cleaned"
    /\ Len(CleanedRows) = 1
    /\ Len(loaded_trips.rows) = 2
    /\ "min_duration" \in all_trips.columns

\* the row's min_duration is empty or outside 1 to 120 minutes
DurationOutlier(r) ==
    \/ r.min_duration = <<>>
    \/ r.min_duration[1] < 1 * 60
    \/ r.min_duration[1] > 120 * 60

\* the row starts and ends at one station and lasts less than 3 minutes
SameStationShort(r) ==
    /\ r.start_station_id = r.end_station_id
    /\ r.min_duration # <<>>
    /\ r.min_duration[1] < 3 * 60

\* C24: the table the outlier filter returns is the table it is given
\* without the rows of two sets, both taken on the table it is given: the
\* rows of a duration that is empty or outside 1 to 120 minutes, and the
\* same-station rows of less than 3 minutes; the other rows stay, in order.
C24_OutliersUnionOfTwoSets ==
    [][ (pc = "duration" /\ pc' = "cleaned") =>
          all_trips'.rows =
              SelectSeq(all_trips.rows,
                        LAMBDA r : ~(DurationOutlier(r) \/ SameStationShort(r))) ]_vars

\* the outlier filter returned one row of a table of two, the other being a
\* same-station trip of a duration within 1 to 120 minutes
C24_Witness ==
    /\ pc = "cleaned"
    /\ Len(CleanedRows) = 1
    /\ \E i \in DOMAIN loaded_trips.rows :
         LET r == loaded_trips.rows[i]
         IN  /\ r.start_station_id = r.end_station_id
             /\ r.started_at # <<>>
             /\ r.ended_at # <<>>
             /\ r.ended_at[1] - r.started_at[1] = 60

\* the table _clean_trip_data returns for a loaded table
CleanOf(trips) ==
    FilterOutlierTrips(CalculateTripDuration(
        FilterMaintenanceTrips(trips, metadata_station_ids)))

\* the run on a loaded table writes the two files as they are written
SameOutputs(trips) ==
    LET cleaned == CleanOf(trips)
    IN  /\ cleaned.rows # <<>>
        /\ {"member_casual", "rideable_type"} \subseteq cleaned.columns
        /\ DailyAggregates(cleaned) = DailyRows
        /\ HourlyAggregates(cleaned, StartMidnight, Allowed) = HourlyRows

C27_HourlyRowsHaveActivity ==
    HourlyWritten =>
        \A i \in DOMAIN HourlyRows :
            /\ HourlyRows[i].pickups >= 0
            /\ HourlyRows[i].dropoffs >= 0
            /\ HourlyRows[i].pickups + HourlyRows[i].dropoffs >= 1

\* two allow-listed stations have rows, and one of them has a row for an
\* hour in which the other has none
C27_Witness ==
    /\ HourlyWritten
    /\ \E i, j \in DOMAIN HourlyRows :
         /\ HourlyRows[i].station_id # HourlyRows[j].station_id
         /\ \A n \in DOMAIN HourlyRows :
               HourlyRows[n].station_id = HourlyRows[j].station_id =>
                   << HourlyRows[n].date, HourlyRows[n].hour >>
                       # << HourlyRows[i].date, HourlyRows[i].hour >>

\* the first step of the cleaner was taken on the loaded table
CleanerStarted ==
    /\ Loaded
    /\ station_metadata_file # <<>>
    /\ station_metadata_file[1].exists
    /\ pc # "metadata"

\* every loaded trip starts or ends at a maintenance station
AllTripsMaintenance ==
    /\ loaded_trips.rows # <<>>
    /\ \A i \in DOMAIN loaded_trips.rows :
         \/ loaded_trips.rows[i].start_station_id \in MaintenanceSet
         \/ loaded_trips.rows[i].end_station_id \in MaintenanceSet

\* the run ended with a division by zero in the given function
DividedByZeroIn(function) ==
    /\ pc = "failed"
    /\ error.type = "ZeroDivisionError"
    /\ error.raised_in = function

\* C28: a loaded table of no rows makes the maintenance filter divide by
\* zero; a loaded table whose trips are all maintenance trips makes the
\* outlier filter divide by zero.  Either way the run ends inside the
\* cleaner, the daily aggregator is not reached and no output file is written.
C28_NothingToCleanFails ==
    /\ (CleanerStarted /\ loaded_trips.rows = <<>>) =>
          DividedByZeroIn("_filter_maintenance_trips") /\ NoOutput
    /\ (CleanerStarted /\ AllTripsMaintenance) =>
          /\ \/ pc \in {"maintenance", "duration"}
             \/ DividedByZeroIn("_filter_outlier_trips")
          /\ NoOutput

\* two trips were loaded, the maintenance filter removed both and the
\* outlier filter failed on the table of no rows
C28_Witness ==
    /\ DividedByZeroIn("_filter_outlier_trips")
    /\ Len(loaded_trips.rows) = 2
    /\ AllTripsMaintenance
    /\ all_trips.rows = <<>>
    /\ NoOutput

\* the positions in the log of the run's requests of a method for a month
RequestsFor(method, d) ==
    {i \in DOMAIN requests_log :
        requests_log[i].method = method /\ requests_log[i].date_str = d}

\* the loop of download_trips_data is running
InLoop == download_pc \in {"check", "head_standard", "head_csv", "get", "extract"}

\* the loop of download_trips_data has ended with a result for every month
RangeFinished == download_pc = "finished" /\ Len(results) = Len(date_range)

C25_StandardFirstCsvFallback ==
    /\ download_pc = "get" =>
          LET standard == RequestsFor("HEAD", DateStr)
                              \cap {i \in DOMAIN requests_log : requests_log[i].pattern = "standard"}
              csv == RequestsFor("HEAD", DateStr)
                         \cap {i \in DOMAIN requests_log : requests_log[i].pattern = "csv"}
          IN  /\ Cardinality(standard) = 1
              /\ \A i \in standard :
                    IF requests_log[i].outcome = "200"
                    THEN pattern = "standard" /\ csv = {}
                    ELSE /\ Cardinality(csv) = 1
                         /\ \A j \in csv :
                              /\ j > i
                              /\ pattern = IF requests_log[j].outcome = "200"
                                           THEN "csv" ELSE "standard"
    /\ requests_log # <<>> => download_pc # "failed" /\ download_error = NoError

\* the HEAD request to the standard URL raised, the one to the .csv.zip URL
\* answered 200 and the csv pattern was returned
C25_Witness ==
    /\ download_pc = "get"
    /\ pattern = "csv"
    /\ \E i \in RequestsFor("HEAD", DateStr) :
         requests_log[i].pattern = "standard" /\ requests_log[i].outcome = "RequestException"

\* the CSV of every month of the range is in the directory
AllCsvExist ==
    \A i \in DOMAIN date_range : ExpectedCsv(date_range[i]) \in trips_dir_files

\* C29: the step of a month whose CSV exists returns "skipped", makes no
\* request and leaves the directory as it is; a run over a range whose CSVs
\* all exist makes no request from its start to its end.
C29_ExistingCsvSkipped ==
    [][ /\ (download_pc = "check" /\ ExpectedCsv(DateStr) \in trips_dir_files) =>
              /\ results' = Append(results, "skipped")
              /\ requests_log' = requests_log
              /\ trips_dir_files' = trips_dir_files
        /\ (InLoop /\ AllCsvExist /\ requests_log = <<>>) =>
              /\ requests_log' = <<>>
              /\ trips_dir_files' = trips_dir_files
              /\ download_pc' \in {"check", "finished"}
        /\ (download_pc = "start" /\ download_pc' # "failed") =>
              requests_log' = <<>>
      ]_vars

\* the second run skipped both months of its range without a request; the
\* CSV of 2023-11 was downloaded by the first run
C29_Witness ==
    /\ download_run = 2
    /\ RangeFinished
    /\ results = << "skipped", "skipped" >>
    /\ requests_log = <<>>
    /\ ExpectedCsv(<< 2023, 11 >>) \in trips_dir_files
    /\ ExpectedCsv(<< 2024, 1 >>) \notin trips_dir_files

\* the run asked for a resource and _fetch_json returned None
FetchFailed(log, url) ==
    \E i \in DOMAIN log : log[i].url = url /\ log[i].outcome \in FetchFailures

\* the run asked for a resource
Fetched(log, url) == \E i \in DOMAIN log : log[i].url = url

\* C30: once the fetch of station_information or of system_regions has
\* failed in a run, no step of the run writes station_information.csv and
\* none ends the run with an exception; after a failed fetch of
\* station_information the run never asks for system_regions; the step that
\* fails goes on to the status download if download_status is set, and a
\* run that finished with download_status set has asked for the status.
C30_FailedFetchWritesNoMetadata ==
    [][ (FetchFailed(fetch_log', "station_information")
           \/ FetchFailed(fetch_log', "system_regions")) =>
          /\ station_information_csv' = station_information_csv
          /\ stations_pc' # "failed"
          /\ stations_error' = NoError
          /\ FetchFailed(fetch_log', "station_information") =>
                ~Fetched(fetch_log', "system_regions")
          /\ stations_pc \in {"fetch_information", "fetch_regions"} =>
                stations_pc' = IF download_status THEN "fetch_status" ELSE "finished"
          /\ (stations_pc' = "finished" /\ download_status) =>
                Fetched(fetch_log', "station_status")
      ]_vars

\* the fetch of system_regions failed after station_information was
\* fetched with a station in it; the status download ran and wrote its
\* file, station_information.csv was not written
C30_Witness ==
    /\ stations_pc = "finished"
    /\ stations_run = 1
    /\ station_info_data # <<>>
    /\ station_info_data[1] # <<>>
    /\ FetchFailed(fetch_log, "system_regions")
    /\ station_information_csv = <<>>
    /\ Len(station_status_csvs) = 1

=============================================================================
